---------------------------- MODULE Spec2Model ----------------------------
(***************************************************************************)
(* nais/log-tailer: the glob watcher, the per-file tailer with its         *)
(* rotation handling, the two bounded dispatch channels and the two sinks. *)
(*                                                                         *)
(* A file is a sequence of chunks.  A chunk is what one write of the       *)
(* external writer appends: a whole line with its terminator, the head of  *)
(* a line (no terminator yet) or the tail of that line (the rest, with the *)
(* terminator).  Sizes and offsets count chunks.                           *)
(***************************************************************************)
EXTENDS Naturals, Integers, Sequences, FiniteSets, TLC

\* ------------------------------------------------------------------ bounds
\* Number of lines the external writer appends in a run.
MaxLines == 2
\* Number of files (identities) that exist during a run.
MaxInodes == 2
\* Number of lines the writer appends when two files are tailed.
MaxPipeLines == 3
\* Number of comma-separated fields of an AUDIT message.
MaxFields == 5
\* Number of lines by which the writer's burst exceeds what a channel holds.
MaxOverflow == 1

\* ------------------------------------------------------- program constants
auditLogEntryCapacity == 100
fileLogLinesCapacity == 100

\* The paths that match the glob pattern.
Paths == {"p1", "p2"}
Inodes == 1..MaxInodes
LineIds == 1..MaxLines
\* The line texts the writer produces (the JSON value each stands for is
\* given by Document).
LineKinds == {"audit", "log"}
\* A burst is more lines than a channel holds (both hold the same number).
BurstLines == auditLogEntryCapacity + MaxOverflow

VARIABLES
    \* the file system and the external writer
    dir,            \* path -> inode (0: no file under that path)
    content,        \* inode -> sequence of chunks
    nextIno,        \* next unused file identity
    nextId,         \* next unused line id
    \* process
    cancelled,      \* ctx.Done() is closed
    exitCode,       \* -1 while the process runs
    mpc,            \* position of main
    \* channels
    logEntries,     \* audit channel (parsed entries)
    logLines,       \* passthrough channel (raw lines)
    \* Watch
    wpc,            \* position of Watch
    tailers,        \* the map tailers (its key set)
    watching,       \* the directory watch is established
    events,         \* watcher.Events: create events not yet received
    otherEvents,    \* watcher.Events: events without the Create operation not yet received
    \* Tailer.Tail, one per path
    tpc,            \* position of the tailer
    logFile,        \* [ino, closed, first]: the handle in variable logFile
    offset,         \* the handle's file offset
    rbuf,           \* the bufio.Reader's unread buffer
    lastFileInfo,   \* [ino, size]; ino = 0: nil
    pending,        \* the line being enqueued (<<>>: none)
    \* sinks
    fpc, apc,       \* position of FileLogger.Log / AuditLogger.Log
    stdout,         \* lines printed by the file logger
    gcp,            \* entries submitted by the audit logger
    unflushed,      \* entries submitted whose Flush has not returned
    \* history
    sent,           \* line id -> [a, p]: enqueues on the audit / passthrough channel
    lineFile,       \* line id -> the path it was appended to ("" before)
    rotated,        \* path -> "none" | "truncate" | "delete": changed since the tailer's last open
    checked,        \* path -> a rotation check ran since the last change of the path
    startPos,       \* path -> offset right after the tailer's last successful open
    old,            \* line ids that were in the file at the tailer's first open
    spawns,         \* path -> number of tailers started for it
    discarded,      \* line id -> "no" | "line" | "event" | "silent": the tailer read
                    \* text of the line and gave it up, with a log record of the
                    \* text, of the event only, or with none
    \* configuration
    dryRun          \* the --dry-run flag

vars == <<dir, content, nextIno, nextId, cancelled, exitCode, mpc, logEntries,
          logLines, wpc, tailers, watching, events, otherEvents, tpc, logFile, offset, rbuf,
          lastFileInfo, pending, fpc, apc, stdout, gcp, unflushed, sent, lineFile, rotated,
          checked, startPos, old, spawns, discarded, dryRun>>

envVars == <<dir, content, nextIno, nextId>>
tailVars == <<tpc, logFile, offset, rbuf, lastFileInfo, pending>>
histVars == <<sent, lineFile, rotated, checked, startPos, old, discarded>>
sinkVars == <<fpc, apc, stdout, gcp, unflushed>>
watchVars == <<wpc, tailers, watching, events, otherEvents>>

Running == exitCode = -1

NoFile == [ino |-> 0, closed |-> TRUE, first |-> TRUE]
NoInfo == [ino |-> 0, size |-> 0]

\* ---------------------------------------------------------------- strings
HasPrefix(s, prefix) ==
    /\ Len(s) >= Len(prefix)
    /\ SubSeq(s, 1, Len(prefix)) = prefix

\* ------------------------------------------------------------ line texts
\* A member of a JSON object: absent, or a value of a JSON type; v is its text
\* (texts are sequences of tokens, <<>> is the empty string).
AbsentField == [t |-> "absent", v |-> <<>>]

\* The JSON document a complete line of each kind holds: whether it is an
\* object, whether it is the literal null, its "message" member (absent, a
\* string, or another type) and its members user, dbname and backend_type.  Any other text ("bad") is no JSON object:
\* broken JSON, or a JSON array, string or number.
Document(kind) ==
    CASE kind = "audit" -> [object |-> TRUE, null |-> FALSE, msgType |-> "string",
                            message |-> <<"AUDIT:", " ", "SESSION", ",", "READ">>,
                            user |-> [t |-> "string", v |-> <<"app">>],
                            dbname |-> [t |-> "string", v |-> <<"db">>],
                            backend_type |-> AbsentField]
      [] kind = "audit_nospace" ->
                           [object |-> TRUE, null |-> FALSE, msgType |-> "string",
                            message |-> <<"AUDIT:", "SESSION", ",", "READ">>,
                            user |-> [t |-> "string", v |-> <<"app">>],
                            dbname |-> [t |-> "string", v |-> <<"db">>],
                            backend_type |-> AbsentField]
      [] kind = "log"   -> [object |-> TRUE, null |-> FALSE, msgType |-> "string",
                            message |-> <<"LOG:", " ", "checkpoint">>,
                            user |-> AbsentField, dbname |-> AbsentField,
                            backend_type |-> [t |-> "string", v |-> <<"checkpointer">>]]
      [] kind = "nomsg" -> [object |-> TRUE, null |-> FALSE, msgType |-> "absent",
                            message |-> <<>>,
                            user |-> AbsentField, dbname |-> AbsentField,
                            backend_type |-> AbsentField]
      [] kind = "number" -> [object |-> TRUE, null |-> FALSE, msgType |-> "number",
                            message |-> <<>>,
                            user |-> AbsentField, dbname |-> AbsentField,
                            backend_type |-> AbsentField]
      [] kind = "null"  -> [object |-> FALSE, null |-> TRUE, msgType |-> "absent",
                            message |-> <<>>,
                            user |-> AbsentField, dbname |-> AbsentField,
                            backend_type |-> AbsentField]
      [] OTHER          -> [object |-> FALSE, null |-> FALSE, msgType |-> "absent",
                            message |-> <<>>,
                            user |-> AbsentField, dbname |-> AbsentField,
                            backend_type |-> AbsentField]

EndsLine(c) == c.part \in {"whole", "tail"}

\* A line as ReadString returns it holds one complete text when it is one
\* whole chunk, or the head and the tail of the same line.
IsWholeText(line) ==
    \/ Len(line) = 1 /\ line[1].part = "whole"
    \/ /\ Len(line) = 2
       /\ line[1].part = "head"
       /\ line[2].part = "tail"
       /\ line[1].id = line[2].id

\* json.Unmarshal([]byte(line), &logEntry) with logEntry a
\* map[string]interface{}: a JSON object fills the map, the JSON literal null
\* leaves it nil without an error, anything else is an error.
JsonUnmarshal(line) ==
    IF IsWholeText(line) /\ (Document(line[1].kind).object \/ Document(line[1].kind).null)
    THEN [err |-> FALSE,
          entry |-> [id |-> line[1].id,
                     msgType |-> Document(line[1].kind).msgType,
                     message |-> Document(line[1].kind).message,
                     user |-> Document(line[1].kind).user,
                     dbname |-> Document(line[1].kind).dbname,
                     backend_type |-> Document(line[1].kind).backend_type]]
    ELSE [err |-> TRUE,
          entry |-> [id |-> 0, msgType |-> "absent", message |-> <<>>,
                     user |-> AbsentField, dbname |-> AbsentField,
                     backend_type |-> AbsentField]]

\* Mutant of IsAudit: the prefix test is lost.
IsAudit_AnyString(entry) == entry.msgType = "string"

\* Mutant of IsAudit: once an audit record waits in the channel every string
\* message counts as one.
IsAudit_Sticky(entry) ==
    /\ entry.msgType = "string"
    /\ HasPrefix(entry.message, <<"AUDIT:">>) \/ logEntries # <<>>

\* message, ok := logEntry["message"].(string); ok && strings.HasPrefix(message, "AUDIT:")
IsAudit(entry) ==
    /\ entry.msgType = "string"
    /\ HasPrefix(entry.message, <<"AUDIT:">>)

\* ------------------------------------------------------------------ Init
\* The positions of main before it has started the file logger and Watch.
BeforeStart == {"args", "identity", "start"}

\* The state when main is at position `main`: from "newclient" on it has
\* created the channels and started the file logger and Watch (src/main.go
\* 425-432).  The files in `files` exist and are empty, and the writer will
\* give its lines the ids in `ids`.
InitFrom(files, ids, main, entries, audit, dry) ==
    /\ dir = [p \in Paths |-> IF p \in files THEN (IF p = "p1" THEN 1 ELSE Cardinality(files)) ELSE 0]
    /\ content = [i \in Inodes \cup 1..Cardinality(files) |-> <<>>]
    /\ nextIno = Cardinality(files) + 1
    /\ nextId = 1
    /\ cancelled = FALSE
    /\ exitCode = -1
    /\ mpc = main
    /\ logEntries = entries
    /\ logLines = <<>>
    /\ wpc = IF main \in BeforeStart THEN "none" ELSE "start"
    /\ tailers = {}
    /\ watching = FALSE
    /\ events = 0
    /\ otherEvents = <<>>
    /\ tpc = [p \in Paths |-> "none"]
    /\ logFile = [p \in Paths |-> NoFile]
    /\ offset = [p \in Paths |-> 0]
    /\ rbuf = [p \in Paths |-> <<>>]
    /\ lastFileInfo = [p \in Paths |-> NoInfo]
    /\ pending = [p \in Paths |-> <<>>]
    /\ fpc = IF main \in BeforeStart THEN "none" ELSE "run"
    /\ apc = audit
    /\ stdout = <<>>
    /\ gcp = <<>>
    /\ unflushed = <<>>
    /\ sent = [i \in ids |-> [a |-> 0, p |-> 0]]
    /\ lineFile = [i \in ids |-> ""]
    /\ rotated = [p \in Paths |-> "none"]
    /\ checked = [p \in Paths |-> FALSE]
    /\ startPos = [p \in Paths |-> 0]
    /\ old = {}
    /\ spawns = [p \in Paths |-> 0]
    /\ discarded = [i \in ids |-> "no"]
    /\ dryRun = dry

InitWith(files, ids) == InitFrom(files, ids, "newclient", <<>>, "none", FALSE)

\* One matching file exists when the process starts.
Init == InitWith({"p1"}, LineIds)

\* --------------------------------------------- the file system, the writer
\* The tailer of path p holds a handle it opened.
HasOpened(p) == tpc[p] \in {"loop", "read", "send"}

FileSize(i) == Len(content[i])

\* The writer is in the middle of a line of the file under p.
MidLine(p) ==
    /\ FileSize(dir[p]) > 0
    /\ content[dir[p]][FileSize(dir[p])].part = "head"

NoteChange(p, how) ==
    /\ checked' = [checked EXCEPT ![p] = FALSE]
    /\ rotated' = IF HasOpened(p) /\ (how = "delete" \/ (how = "truncate" /\ rotated[p] = "none"))
                  THEN [rotated EXCEPT ![p] = how]
                  ELSE rotated

\* The writer appends one complete line in one write.
Env_AppendLine(p, kind) ==
    /\ Running
    /\ dir[p] # 0
    /\ nextId \in DOMAIN lineFile
    /\ ~MidLine(p)
    /\ content' = [content EXCEPT ![dir[p]] =
                      Append(@, [id |-> nextId, kind |-> kind, part |-> "whole"])]
    /\ nextId' = nextId + 1
    /\ lineFile' = [lineFile EXCEPT ![nextId] = p]
    /\ NoteChange(p, "append")
    /\ UNCHANGED <<dryRun, spawns, dir, nextIno, cancelled, exitCode, mpc, logEntries, logLines,
                   watchVars, tailVars, sinkVars, sent, discarded, startPos, old>>

\* The writer appends BurstLines complete lines of one kind at once.
Env_AppendBurst(p, kind) ==
    /\ Running
    /\ dir[p] # 0
    /\ nextId + BurstLines - 1 \in DOMAIN lineFile
    /\ ~MidLine(p)
    /\ content' = [content EXCEPT ![dir[p]] =
                      @ \o [k \in 1..BurstLines |->
                               [id |-> nextId + k - 1, kind |-> kind, part |-> "whole"]]]
    /\ nextId' = nextId + BurstLines
    /\ lineFile' = [i \in DOMAIN lineFile |->
                       IF i \in nextId..(nextId + BurstLines - 1) THEN p ELSE lineFile[i]]
    /\ NoteChange(p, "append")
    /\ UNCHANGED <<dryRun, spawns, dir, nextIno, cancelled, exitCode, mpc, logEntries, logLines,
                   watchVars, tailVars, sinkVars, sent, discarded, startPos, old>>

\* The writer appends the first bytes of a line, without its terminator.
Env_AppendHead(p, kind) ==
    /\ Running
    /\ dir[p] # 0
    /\ nextId \in DOMAIN lineFile
    /\ ~MidLine(p)
    /\ content' = [content EXCEPT ![dir[p]] =
                      Append(@, [id |-> nextId, kind |-> kind, part |-> "head"])]
    /\ nextId' = nextId + 1
    /\ lineFile' = [lineFile EXCEPT ![nextId] = p]
    /\ NoteChange(p, "append")
    /\ UNCHANGED <<dryRun, spawns, dir, nextIno, cancelled, exitCode, mpc, logEntries, logLines,
                   watchVars, tailVars, sinkVars, sent, discarded, startPos, old>>

\* The writer appends the rest of the line it began, with the terminator.
Env_AppendTail(p) ==
    /\ Running
    /\ dir[p] # 0
    /\ MidLine(p)
    /\ content' = [content EXCEPT ![dir[p]] =
                      Append(@, [id |-> @[Len(@)].id, kind |-> @[Len(@)].kind, part |-> "tail"])]
    /\ NoteChange(p, "append")
    /\ UNCHANGED <<dryRun, spawns, dir, nextIno, nextId, cancelled, exitCode, mpc, logEntries, logLines,
                   watchVars, tailVars, sinkVars, sent, discarded, lineFile, startPos, old>>

\* The file under p is truncated to length 0 (it keeps its identity).
Env_Truncate(p) ==
    /\ Running
    /\ dir[p] # 0
    /\ FileSize(dir[p]) > 0
    /\ content' = [content EXCEPT ![dir[p]] = <<>>]
    /\ NoteChange(p, "truncate")
    /\ UNCHANGED <<dryRun, spawns, dir, nextIno, nextId, cancelled, exitCode, mpc, logEntries, logLines,
                   watchVars, tailVars, sinkVars, sent, discarded, lineFile, startPos, old>>

\* The file under p is deleted; open handles keep its content.
Env_Delete(p) ==
    /\ Running
    /\ dir[p] # 0
    /\ dir' = [dir EXCEPT ![p] = 0]
    /\ NoteChange(p, "delete")
    /\ UNCHANGED <<dryRun, spawns, content, nextIno, nextId, cancelled, exitCode, mpc, logEntries, logLines,
                   watchVars, tailVars, sinkVars, sent, discarded, lineFile, startPos, old>>

\* A new, empty file is created under p; an established directory watch
\* reports a create event.
Env_Create(p) ==
    /\ Running
    /\ dir[p] = 0
    /\ nextIno <= MaxInodes
    /\ dir' = [dir EXCEPT ![p] = nextIno]
    /\ nextIno' = nextIno + 1
    /\ events' = IF watching THEN events + 1 ELSE events
    /\ UNCHANGED otherEvents
    /\ NoteChange(p, "create")
    /\ UNCHANGED <<dryRun, spawns, content, nextId, cancelled, exitCode, mpc, logEntries, logLines,
                   wpc, tailers, watching, tailVars, sinkVars, sent, discarded, lineFile, startPos, old>>

\* Create events of recycled identities that may wait for Watch.
MaxEvents == 2

\* A new, empty file is created under p and the file system gives it the
\* identity of a file that is gone: one no path names and no open handle
\* holds.  os.SameFile cannot tell it from that file.
Env_CreateReused(p) ==
    /\ Running
    /\ dir[p] = 0
    /\ events < MaxEvents
    /\ \E i \in 1..(nextIno - 1) :
          /\ \A q \in Paths : dir[q] # i /\ (logFile[q].ino = i => logFile[q].closed)
          /\ dir' = [dir EXCEPT ![p] = i]
          /\ content' = [content EXCEPT ![i] = <<>>]
    /\ events' = IF watching THEN events + 1 ELSE events
    /\ UNCHANGED otherEvents
    /\ NoteChange(p, "create")
    /\ UNCHANGED <<dryRun, spawns, nextIno, nextId, cancelled, exitCode, mpc, logEntries, logLines,
                   wpc, tailers, watching, tailVars, sinkVars, sent, discarded, lineFile, startPos, old>>

\* handleShutdown (started by main after the check of the arguments): the
\* termination signal arrives and cancel() is called.
handleShutdown ==
    /\ Running
    /\ mpc # "args"
    /\ ~cancelled
    /\ cancelled' = TRUE
    /\ UNCHANGED <<dryRun, spawns, envVars, exitCode, mpc, logEntries, logLines, watchVars, tailVars,
                   sinkVars, histVars>>

\* ------------------------------------------------------------ Tailer.Tail
\* Mutant of FirstOffset: no seek to the end at the first open.
FirstOffset_NoSeek(size) == 0

\* The offset after the first open: info.Size() > 0 seeks to the end.
FirstOffset(size) == IF size > 0 THEN size ELSE 0

\* Mutant of Tail_Open: a tailer that cannot open its file returns.
Tail_Open_GiveUp(p) ==
    /\ Running
    /\ tpc[p] = "opening"
    /\ IF dir[p] = 0
       THEN /\ tpc' = [tpc EXCEPT ![p] = "done"]
            /\ UNCHANGED <<logFile, offset, rbuf, lastFileInfo, pending, rotated, startPos, old>>
       ELSE /\ logFile' = [logFile EXCEPT ![p] = [ino |-> dir[p], closed |-> FALSE, first |-> TRUE]]
            /\ lastFileInfo' = [lastFileInfo EXCEPT ![p] = [ino |-> dir[p], size |-> FileSize(dir[p])]]
            /\ offset' = [offset EXCEPT ![p] = FileSize(dir[p])]
            /\ rbuf' = [rbuf EXCEPT ![p] = <<>>]
            /\ tpc' = [tpc EXCEPT ![p] = "loop"]
            /\ rotated' = [rotated EXCEPT ![p] = "none"]
            /\ startPos' = [startPos EXCEPT ![p] = FileSize(dir[p])]
            /\ old' = old \cup {content[dir[p]][k].id : k \in 1..FileSize(dir[p])}
            /\ UNCHANGED pending
    /\ UNCHANGED <<dryRun, spawns, envVars, cancelled, exitCode, mpc, logEntries, logLines, watchVars,
                   sinkVars, sent, discarded, lineFile, checked>>

\* os.Open(t.filePath) at the top of Tail; on success Stat and, for a
\* non-empty file, Seek(0, 2); then the reader is created.
Tail_Open(p) ==
    /\ Running
    /\ tpc[p] = "opening"
    /\ IF dir[p] = 0
       THEN \* "Unable to open file, retrying": sleep and try again
            UNCHANGED <<tailVars, rotated, startPos, old>>
       ELSE /\ logFile' = [logFile EXCEPT ![p] = [ino |-> dir[p], closed |-> FALSE, first |-> TRUE]]
            /\ lastFileInfo' = [lastFileInfo EXCEPT ![p] = [ino |-> dir[p], size |-> FileSize(dir[p])]]
            /\ offset' = [offset EXCEPT ![p] = FirstOffset(FileSize(dir[p]))]
            /\ rbuf' = [rbuf EXCEPT ![p] = <<>>]
            /\ tpc' = [tpc EXCEPT ![p] = "loop"]
            /\ rotated' = [rotated EXCEPT ![p] = "none"]
            /\ startPos' = [startPos EXCEPT ![p] = FirstOffset(FileSize(dir[p]))]
            /\ old' = old \cup {content[dir[p]][k].id : k \in 1..FileSize(dir[p])}
            /\ UNCHANGED pending
    /\ UNCHANGED <<dryRun, spawns, envVars, cancelled, exitCode, mpc, logEntries, logLines, watchVars,
                   sinkVars, sent, discarded, lineFile, checked>>

\* os.Open succeeds and logFile.Stat() returns an error ("Failed to stat log
\* file"): lastFileInfo stays nil and nothing seeks to the end.
Tail_Open_StatFails(p) ==
    /\ Running
    /\ tpc[p] = "opening"
    /\ dir[p] # 0
    /\ logFile' = [logFile EXCEPT ![p] = [ino |-> dir[p], closed |-> FALSE, first |-> TRUE]]
    /\ lastFileInfo' = [lastFileInfo EXCEPT ![p] = NoInfo]
    /\ offset' = [offset EXCEPT ![p] = 0]
    /\ rbuf' = [rbuf EXCEPT ![p] = <<>>]
    /\ tpc' = [tpc EXCEPT ![p] = "loop"]
    /\ rotated' = [rotated EXCEPT ![p] = "none"]
    /\ startPos' = [startPos EXCEPT ![p] = 0]
    /\ old' = old \cup {content[dir[p]][k].id : k \in 1..FileSize(dir[p])}
    /\ UNCHANGED <<dryRun, spawns, envVars, cancelled, exitCode, mpc, logEntries, logLines, watchVars,
                   sinkVars, sent, discarded, lineFile, checked, pending>>

\* Mutant of checkLogRotation: the os.SameFile comparison is lost.
checkLogRotation_SizeOnly(p, lastInfo) ==
    IF lastInfo.ino = 0 THEN FALSE
    ELSE IF dir[p] = 0 THEN TRUE
    ELSE FileSize(dir[p]) < lastInfo.size

\* Mutant of checkLogRotation: the size comparison is lost.
checkLogRotation_SameFileOnly(p, lastInfo) ==
    IF lastInfo.ino = 0 THEN FALSE
    ELSE IF dir[p] = 0 THEN TRUE
    ELSE dir[p] # lastInfo.ino

\* checkLogRotation(filePath, lastInfo)
checkLogRotation(p, lastInfo) ==
    IF lastInfo.ino = 0 THEN FALSE                       \* lastInfo == nil
    ELSE IF dir[p] = 0 THEN TRUE                         \* os.Stat fails
    ELSE IF dir[p] # lastInfo.ino THEN TRUE              \* !os.SameFile
    ELSE FileSize(dir[p]) < lastInfo.size                \* size decreased

\* Mutant of ReopenOffset: the reopened handle is positioned at the end.
ReopenOffset_SeekEnd(size) == size

\* The offset of the handle opened after a rotation: the new *os.File and the
\* new bufio.Reader start at the beginning, whatever the file's size.
ReopenOffset(size) == 0

\* The deferred logFile.Close(): it closes the handle of the first open.
DeferredClose(f) == IF f.first THEN [f EXCEPT !.closed = TRUE] ELSE f

\* The top of the loop: the cancellation check, then the non-blocking
\* rotation check (tick: the rotation ticker has fired).
Tail_Loop(p, tick) ==
    /\ Running
    /\ tpc[p] = "loop"
    /\ IF cancelled
       THEN /\ tpc' = [tpc EXCEPT ![p] = "done"]
            /\ logFile' = [logFile EXCEPT ![p] = DeferredClose(@)]
            /\ UNCHANGED <<offset, rbuf, lastFileInfo, pending, rotated, checked, startPos>>
       ELSE IF tick /\ checkLogRotation(p, lastFileInfo[p])
       THEN IF dir[p] = 0
            THEN \* the old handle is closed, the reopen fails: sleep, continue
                 /\ logFile' = [logFile EXCEPT ![p] = [@ EXCEPT !.closed = TRUE]]
                 /\ checked' = [checked EXCEPT ![p] = TRUE]
                 /\ UNCHANGED <<tpc, offset, rbuf, lastFileInfo, pending, rotated, startPos>>
            ELSE /\ logFile' = [logFile EXCEPT ![p] = [ino |-> dir[p], closed |-> FALSE, first |-> FALSE]]
                 /\ rbuf' = [rbuf EXCEPT ![p] = <<>>]
                 /\ offset' = [offset EXCEPT ![p] = ReopenOffset(FileSize(dir[p]))]
                 /\ lastFileInfo' = [lastFileInfo EXCEPT ![p] = [ino |-> dir[p], size |-> FileSize(dir[p])]]
                 /\ tpc' = [tpc EXCEPT ![p] = "read"]
                 /\ checked' = [checked EXCEPT ![p] = TRUE]
                 /\ rotated' = [rotated EXCEPT ![p] = "none"]
                 /\ startPos' = [startPos EXCEPT ![p] = ReopenOffset(FileSize(dir[p]))]
                 /\ UNCHANGED pending
       ELSE /\ tpc' = [tpc EXCEPT ![p] = "read"]
            /\ checked' = [checked EXCEPT ![p] = checked[p] \/ tick]
            /\ UNCHANGED <<logFile, offset, rbuf, lastFileInfo, pending, rotated, startPos>>
    /\ UNCHANGED <<dryRun, spawns, envVars, cancelled, exitCode, mpc, logEntries, logLines, watchVars,
                   sinkVars, sent, discarded, lineFile, old>>

\* Index of the first chunk of s that ends a line (0: none).
NewlineIndex(s) ==
    IF \E i \in 1..Len(s) : EndsLine(s[i])
    THEN CHOOSE i \in 1..Len(s) : EndsLine(s[i]) /\ \A j \in 1..(i - 1) : ~EndsLine(s[j])
    ELSE 0

\* reader.ReadString('\n') of bufio.Reader: a buffered line is returned
\* without a read; otherwise the buffer is filled from the handle.  When no
\* terminator is found before the read fails (end of file, or a closed
\* handle), everything read so far is returned WITH the error and leaves the
\* buffer.
ReadString(p) ==
    LET b == rbuf[p]
        i == NewlineIndex(b)
        c == content[logFile[p].ino]
        data == IF offset[p] < Len(c) THEN SubSeq(c, offset[p] + 1, Len(c)) ELSE <<>>
        b2 == b \o data
        j == NewlineIndex(b2)
        off2 == IF offset[p] < Len(c) THEN Len(c) ELSE offset[p]
    IN  IF i > 0
        THEN [err |-> "nil", line |-> SubSeq(b, 1, i), rbuf |-> SubSeq(b, i + 1, Len(b)),
              offset |-> offset[p]]
        ELSE IF logFile[p].closed
        THEN [err |-> "closed", line |-> b, rbuf |-> <<>>, offset |-> offset[p]]
        ELSE IF j > 0
        THEN [err |-> "nil", line |-> SubSeq(b2, 1, j), rbuf |-> SubSeq(b2, j + 1, Len(b2)),
              offset |-> off2]
        ELSE [err |-> "EOF", line |-> b2, rbuf |-> <<>>, offset |-> off2]

\* The tailer gives up the text `line` it has read, on a path of the code
\* that logs the text (how = "line"), that logs only what happened
\* (how = "event"), or that logs nothing (how = "silent").
GiveUp(line, how) ==
    discarded' = [i \in DOMAIN discarded |->
                     IF \E k \in 1..Len(line) : line[k].id = i
                     THEN (IF discarded[i] = "silent" THEN "silent" ELSE how)
                     ELSE discarded[i]]

\* The log record of each path of one read attempt on which text is given
\* up: none on io.EOF, "Read error" on another error, "Failed to parse JSON
\* log line" with the text on a parse error, "Context cancelled, stopping log
\* processing" on the second cancellation check.
ReadLogRecord(r) ==
    IF r.err = "EOF" THEN "silent"
    ELSE IF r.err # "nil" THEN "event"
    ELSE IF JsonUnmarshal(r.line).err THEN "line"
    ELSE "event"

\* One read attempt: ReadString, the error branches (sleep, continue), the
\* JSON parse (a line that does not parse is logged and skipped) and the
\* second cancellation check (return).
Tail_Read(p) ==
    /\ Running
    /\ tpc[p] = "read"
    /\ LET r == ReadString(p)
       IN  /\ rbuf' = [rbuf EXCEPT ![p] = r.rbuf]
           /\ offset' = [offset EXCEPT ![p] = r.offset]
           /\ IF r.err # "nil" \/ JsonUnmarshal(r.line).err
              THEN /\ tpc' = [tpc EXCEPT ![p] = "loop"]
                   /\ GiveUp(r.line, ReadLogRecord(r))
                   /\ UNCHANGED <<logFile, pending>>
              ELSE IF cancelled
              THEN /\ tpc' = [tpc EXCEPT ![p] = "done"]
                   /\ logFile' = [logFile EXCEPT ![p] = DeferredClose(@)]
                   /\ GiveUp(r.line, ReadLogRecord(r))
                   /\ UNCHANGED pending
              ELSE /\ tpc' = [tpc EXCEPT ![p] = "send"]
                   /\ pending' = [pending EXCEPT ![p] = r.line]
                   /\ UNCHANGED <<logFile, discarded>>
    /\ UNCHANGED <<dryRun, spawns, envVars, cancelled, exitCode, mpc, logEntries, logLines, watchVars,
                   lastFileInfo, sinkVars, sent, lineFile, rotated, checked, startPos, old>>

\* Mutant of Tail_Send: a send with a default branch, which gives the record
\* up when the channel is full.
Tail_Send_DropWhenFull(p) ==
    /\ Running
    /\ tpc[p] = "send"
    /\ LET e == JsonUnmarshal(pending[p]).entry
       IN  \/ /\ IsAudit(e)
              /\ Len(logEntries) < auditLogEntryCapacity
              /\ logEntries' = Append(logEntries, e)
              /\ sent' = [sent EXCEPT ![e.id].a = @ + 1]
              /\ UNCHANGED <<logLines, discarded>>
           \/ /\ ~IsAudit(e)
              /\ Len(logLines) < fileLogLinesCapacity
              /\ logLines' = Append(logLines, pending[p])
              /\ sent' = [sent EXCEPT ![e.id].p = @ + 1]
              /\ UNCHANGED <<logEntries, discarded>>
           \/ /\ \/ cancelled
                 \/ IsAudit(e) /\ Len(logEntries) >= auditLogEntryCapacity
                 \/ ~IsAudit(e) /\ Len(logLines) >= fileLogLinesCapacity
              /\ GiveUp(pending[p], "silent")
              /\ UNCHANGED <<logEntries, logLines, sent>>
    /\ tpc' = [tpc EXCEPT ![p] = "loop"]
    /\ pending' = [pending EXCEPT ![p] = <<>>]
    /\ UNCHANGED <<dryRun, spawns, envVars, cancelled, exitCode, mpc, watchVars, logFile, offset, rbuf,
                   lastFileInfo, sinkVars, lineFile, rotated, checked, startPos, old>>

\* The two selects that enqueue the record: the send when the channel has
\* room, or ctx.Done(), whose case is empty: the record is given up, and the
\* cancellation check at the top of the loop, which comes next, logs
\* "Context cancelled, stopping log processing".
Tail_Send(p) ==
    /\ Running
    /\ tpc[p] = "send"
    /\ LET e == JsonUnmarshal(pending[p]).entry
       IN  \/ /\ IsAudit(e)
              /\ Len(logEntries) < auditLogEntryCapacity
              /\ logEntries' = Append(logEntries, e)
              /\ sent' = [sent EXCEPT ![e.id].a = @ + 1]
              /\ UNCHANGED <<logLines, discarded>>
           \/ /\ ~IsAudit(e)
              /\ Len(logLines) < fileLogLinesCapacity
              /\ logLines' = Append(logLines, pending[p])
              /\ sent' = [sent EXCEPT ![e.id].p = @ + 1]
              /\ UNCHANGED <<logEntries, discarded>>
           \/ /\ cancelled
              /\ GiveUp(pending[p], "event")
              /\ UNCHANGED <<logEntries, logLines, sent>>
    /\ tpc' = [tpc EXCEPT ![p] = "loop"]
    /\ pending' = [pending EXCEPT ![p] = <<>>]
    /\ UNCHANGED <<dryRun, spawns, envVars, cancelled, exitCode, mpc, watchVars, logFile, offset, rbuf,
                   lastFileInfo, sinkVars, lineFile, rotated, checked, startPos, old>>

\* The text a dry-run sink prints before the record.
DryRunPrefix(text) == [id |-> 0, kind |-> text, part |-> "prefix"]

\* Mutant of PrintLine: the line is printed verbatim in both modes.
PrintLine_Verbatim(logLine) == logLine

\* fmt.Printf("[DRY-RUN STDOUT] %s\n", logLine) or fmt.Println(logLine)
PrintLine(logLine) ==
    IF dryRun THEN <<DryRunPrefix("[DRY-RUN STDOUT] ")>> \o logLine ELSE logLine

\* ------------------------------------------------------------------ sinks
\* Mutant of FileLogger_Log: the newest line of the channel is taken first.
FileLogger_Log_NewestFirst ==
    /\ Running
    /\ fpc = "run"
    /\ \/ /\ cancelled
          /\ fpc' = "done"
          /\ UNCHANGED <<logLines, stdout>>
       \/ /\ Len(logLines) > 0
          /\ stdout' = Append(stdout, PrintLine(logLines[Len(logLines)]))
          /\ logLines' = SubSeq(logLines, 1, Len(logLines) - 1)
          /\ UNCHANGED fpc
    /\ UNCHANGED <<dryRun, spawns, envVars, cancelled, exitCode, mpc, logEntries, watchVars, tailVars,
                   apc, gcp, unflushed, histVars>>

\* Mutant of FileLogger_Log: with no line to print the sink takes a record
\* from the audit channel.
FileLogger_Log_TakesEntries ==
    /\ Running
    /\ fpc = "run"
    /\ \/ /\ cancelled
          /\ fpc' = "done"
          /\ UNCHANGED <<logLines, logEntries, stdout>>
       \/ /\ Len(logLines) > 0
          /\ stdout' = Append(stdout, PrintLine(Head(logLines)))
          /\ logLines' = Tail(logLines)
          /\ UNCHANGED <<fpc, logEntries>>
       \/ /\ Len(logLines) = 0
          /\ Len(logEntries) > 0
          /\ logEntries' = Tail(logEntries)
          /\ UNCHANGED <<fpc, logLines, stdout>>
    /\ UNCHANGED <<dryRun, spawns, envVars, cancelled, exitCode, mpc, watchVars, tailVars,
                   apc, gcp, unflushed, histVars>>

\* FileLogger.Log: one turn of the select.
FileLogger_Log ==
    /\ Running
    /\ fpc = "run"
    /\ \/ /\ cancelled
          /\ fpc' = "done"
          /\ UNCHANGED <<logLines, stdout>>
       \/ /\ Len(logLines) > 0
          /\ stdout' = Append(stdout, PrintLine(Head(logLines)))
          /\ logLines' = Tail(logLines)
          /\ UNCHANGED fpc
    /\ UNCHANGED <<dryRun, spawns, envVars, cancelled, exitCode, mpc, logEntries, watchVars, tailVars,
                   apc, gcp, unflushed, histVars>>

\* The values resolved at process start (local mode).
projectID == <<"team-project">>
clusterName == <<"local-cluster">>

\* fmt.Sprintf("%s:%s", a.projectID, a.clusterName)
DatabaseId == projectID \o <<":">> \o clusterName

auditPrefix == <<"AUDIT:", " ">>

\* strings.TrimPrefix(s, prefix)
TrimPrefix(s, prefix) ==
    IF HasPrefix(s, prefix) THEN SubSeq(s, Len(prefix) + 1, Len(s)) ELSE s

\* Index of the first "," of s (0: none).
FirstComma(s) ==
    IF \E i \in 1..Len(s) : s[i] = ","
    THEN CHOOSE i \in 1..Len(s) : s[i] = "," /\ \A j \in 1..(i - 1) : s[j] # ","
    ELSE 0

\* strings.Split(s, ","): always at least one part.
RECURSIVE Split(_)
Split(s) ==
    IF FirstComma(s) = 0
    THEN <<s>>
    ELSE <<SubSeq(s, 1, FirstComma(s) - 1)>> \o Split(SubSeq(s, FirstComma(s) + 1, Len(s)))

NoLabels == [k \in {} |-> <<>>]

\* v, ok := logEntry[key].(string); ok && v != ""
NonEmptyString(f) == f.t = "string" /\ f.v # <<>>

\* Mutant of AuditLabels: the class and the command are taken one position
\* too early.
AuditLabels_OneEarly(e) ==
    IF e.msgType = "string" /\ HasPrefix(e.message, auditPrefix)
    THEN LET parts == Split(TrimPrefix(e.message, auditPrefix))
         IN  (IF Len(parts) > 0 /\ parts[1] # <<>>
              THEN "auditType" :> parts[1] ELSE NoLabels)
             @@ (IF Len(parts) > 2 /\ parts[3] # <<>>
                 THEN "auditClass" :> parts[3] ELSE NoLabels)
             @@ (IF Len(parts) > 3 /\ parts[4] # <<>>
                 THEN "command" :> parts[4] ELSE NoLabels)
    ELSE NoLabels

\* The labels taken from the AUDIT message: positions 0, 3 and 4 of the
\* comma-separated text after "AUDIT: ".
AuditLabels(e) ==
    IF e.msgType = "string" /\ HasPrefix(e.message, auditPrefix)
    THEN LET parts == Split(TrimPrefix(e.message, auditPrefix))
         IN  (IF Len(parts) > 0 /\ parts[1] # <<>>
              THEN "auditType" :> parts[1] ELSE NoLabels)
             @@ (IF Len(parts) > 3 /\ parts[4] # <<>>
                 THEN "auditClass" :> parts[4] ELSE NoLabels)
             @@ (IF Len(parts) > 4 /\ parts[5] # <<>>
                 THEN "command" :> parts[5] ELSE NoLabels)
    ELSE NoLabels

\* Mutant of Labels: databaseId holds the cluster name only.
Labels_ClusterOnly(e) ==
    ("databaseId" :> clusterName)
    @@ (IF NonEmptyString(e.user) THEN "user" :> e.user.v ELSE NoLabels)
    @@ (IF NonEmptyString(e.dbname) THEN "databaseName" :> e.dbname.v ELSE NoLabels)
    @@ AuditLabels(e)
    @@ (IF NonEmptyString(e.backend_type) THEN "backendType" :> e.backend_type.v ELSE NoLabels)

\* The map labels that sendToGCP builds.
Labels(e) ==
    ("databaseId" :> DatabaseId)
    @@ (IF NonEmptyString(e.user) THEN "user" :> e.user.v ELSE NoLabels)
    @@ (IF NonEmptyString(e.dbname) THEN "databaseName" :> e.dbname.v ELSE NoLabels)
    @@ AuditLabels(e)
    @@ (IF NonEmptyString(e.backend_type) THEN "backendType" :> e.backend_type.v ELSE NoLabels)

\* The logging.Entry that sendToGCP hands to the client: the entry as payload,
\* the labels and the monitored resource.
GcpEntry(e) ==
    [id |-> e.id,
     payload |-> e,
     severity |-> "Info",
     labels |-> Labels(e),
     resource |-> [type |-> "generic_node",
                   labels |-> [location |-> <<"europe-north1">>,
                               namespace |-> <<"postgres-audit">>,
                               node_id |-> DatabaseId,
                               project_id |-> projectID]]]

\* AuditLogger.Log: one turn of the select.  sendToGCP serializes the entry
\* (marshalOk: json.Marshal returns no error), hands the record to the client
\* and flushes; whatever error it returns is logged and the loop goes on.  A
\* failed flush leaves the record handed to the client.
AuditLogger_Log(marshalOk) ==
    /\ Running
    /\ ~dryRun
    /\ apc = "run"
    /\ \/ /\ cancelled
          /\ apc' = "done"
          /\ UNCHANGED <<logEntries, gcp>>
       \/ /\ Len(logEntries) > 0
          /\ gcp' = IF marshalOk THEN Append(gcp, GcpEntry(Head(logEntries))) ELSE gcp
          /\ logEntries' = Tail(logEntries)
          /\ UNCHANGED apc
    /\ UNCHANGED unflushed
    /\ UNCHANGED <<dryRun, spawns, envVars, cancelled, exitCode, mpc, logLines, watchVars, tailVars,
                   fpc, stdout, histVars>>

\* Mutant of AuditLogger_Submit: the loop goes on without the Flush.
AuditLogger_Submit_NoFlush(marshalOk) ==
    /\ Running
    /\ ~dryRun
    /\ apc = "run"
    /\ ~cancelled
    /\ Len(logEntries) > 0
    /\ logEntries' = Tail(logEntries)
    /\ IF marshalOk
       THEN /\ gcp' = Append(gcp, GcpEntry(Head(logEntries)))
            /\ unflushed' = Append(unflushed, GcpEntry(Head(logEntries)))
       ELSE UNCHANGED <<gcp, unflushed>>
    /\ UNCHANGED <<dryRun, spawns, envVars, cancelled, exitCode, mpc, logLines, watchVars, tailVars,
                   fpc, apc, stdout, histVars>>

\* AuditLogger.Log step by step.  First step of a turn of the select: on
\* ctx.Done() the logger returns; otherwise it receives an entry and, in
\* sendToGCP, serializes it and calls googleLogger.Log, which hands the record
\* to the client's buffer and returns.  When json.Marshal fails sendToGCP
\* returns before that and the loop goes on.
AuditLogger_Submit(marshalOk) ==
    /\ Running
    /\ ~dryRun
    /\ apc = "run"
    /\ \/ /\ cancelled
          /\ apc' = "done"
          /\ UNCHANGED <<logEntries, gcp, unflushed>>
       \/ /\ Len(logEntries) > 0
          /\ logEntries' = Tail(logEntries)
          /\ IF marshalOk
             THEN /\ gcp' = Append(gcp, GcpEntry(Head(logEntries)))
                  /\ unflushed' = Append(unflushed, GcpEntry(Head(logEntries)))
                  /\ apc' = "flush"
             ELSE UNCHANGED <<gcp, unflushed, apc>>
    /\ UNCHANGED <<dryRun, spawns, envVars, cancelled, exitCode, mpc, logLines, watchVars, tailVars,
                   fpc, stdout, histVars>>

\* Second step: googleLogger.Flush() returns, with an error or without one,
\* once the client has dealt with everything in its buffer; sendToGCP returns
\* and the loop goes back to the select.
AuditLogger_Flush(flushOk) ==
    /\ Running
    /\ apc = "flush"
    /\ unflushed' = <<>>
    /\ apc' = "run"
    /\ UNCHANGED <<dryRun, spawns, envVars, cancelled, exitCode, mpc, logEntries, logLines, watchVars,
                   tailVars, fpc, stdout, gcp, histVars>>

\* fmt.Printf("[DRY-RUN AUDIT] %s\n", string(entryJSON)): the prefix and the
\* entry serialized again.
PrintEntry(e) ==
    <<DryRunPrefix("[DRY-RUN AUDIT] "), [id |-> e.id, kind |-> "json", part |-> "marshalled"]>>

\* DryRunAuditLogger.Log: one turn of the select.  When printEntry returns an
\* error (marshalOk is FALSE) the logger goes on to send it on quit.
DryRunAuditLogger_Log(marshalOk) ==
    /\ Running
    /\ dryRun
    /\ apc = "run"
    /\ \/ /\ cancelled
          /\ apc' = "done"
          /\ UNCHANGED <<logEntries, stdout>>
       \/ /\ Len(logEntries) > 0
          /\ logEntries' = Tail(logEntries)
          /\ IF marshalOk
             THEN /\ stdout' = Append(stdout, PrintEntry(Head(logEntries)))
                  /\ UNCHANGED apc
             ELSE /\ apc' = "quit"
                  /\ UNCHANGED stdout
    /\ UNCHANGED <<dryRun, spawns, envVars, cancelled, exitCode, mpc, logLines, watchVars, tailVars,
                   fpc, gcp, unflushed, histVars>>

\* ------------------------------------------------------------------ Watch
\* filepath.Glob(logFilePattern): the paths that exist.
Glob == {p \in Paths : dir[p] # 0}

\* Mutant of lookForFiles: the lookup in the map is lost.
lookForFiles_NoLookup ==
    /\ tailers' = tailers \cup Glob
    /\ spawns' = [p \in Paths |-> IF p \in Glob THEN spawns[p] + 1 ELSE spawns[p]]
    /\ tpc' = [p \in Paths |-> IF p \in Glob THEN "opening" ELSE tpc[p]]

\* Mutant of lookForFiles: the loop over the matches ends after the first
\* match.
lookForFiles_FirstOnly ==
    LET first == IF Glob = {} THEN {} ELSE {CHOOSE p \in Glob : TRUE}
    IN  /\ tailers' = tailers \cup first
        /\ spawns' = [p \in Paths |-> IF p \in first /\ p \notin tailers THEN spawns[p] + 1 ELSE spawns[p]]
        /\ tpc' = [p \in Paths |-> IF p \in first /\ p \notin tailers THEN "opening" ELSE tpc[p]]

\* lookForFiles: a tailer is created and started for every match that is not
\* in the map.
lookForFiles ==
    /\ tailers' = tailers \cup Glob
    /\ spawns' = [p \in Paths |-> IF p \in Glob /\ p \notin tailers THEN spawns[p] + 1 ELSE spawns[p]]
    /\ tpc' = [p \in Paths |-> IF p \in Glob /\ p \notin tailers THEN "opening" ELSE tpc[p]]

\* lookForFiles when filepath.Glob returns an error: it returns the error and
\* starts nothing.
lookForFiles_Error == UNCHANGED <<tailers, spawns, tpc>>

\* Watch up to fsnotify.NewWatcher(): the first lookForFiles (globOk:
\* filepath.Glob returns no error); on an error Watch goes on to send it on
\* quit.
Watch_Start(globOk) ==
    /\ Running
    /\ wpc = "start"
    /\ IF globOk
       THEN lookForFiles /\ wpc' = "newwatcher"
       ELSE lookForFiles_Error /\ wpc' = "quit"
    /\ UNCHANGED <<dryRun, envVars, cancelled, exitCode, mpc, logEntries, logLines, watching, events, otherEvents,
                   logFile, offset, rbuf, lastFileInfo, pending, sinkVars, histVars>>

\* Mutant of Watch_NewWatcher: a watcher that cannot be created is reported
\* on quit.
Watch_NewWatcher_Fatal(watcherOk, addOk) ==
    /\ Running
    /\ wpc = "newwatcher"
    /\ IF watcherOk
       THEN wpc' = "events" /\ watching' = addOk
       ELSE wpc' = "quit" /\ watching' = FALSE
    /\ UNCHANGED <<dryRun, spawns, envVars, cancelled, exitCode, mpc, logEntries, logLines, tailers, events, otherEvents,
                   tailVars, sinkVars, histVars>>

\* fsnotify.NewWatcher() and watcher.Add(dir).  Without a watcher Watch falls
\* back to the ticker; a failing Add is logged and Watch enters the event loop.
Watch_NewWatcher(watcherOk, addOk) ==
    /\ Running
    /\ wpc = "newwatcher"
    /\ IF watcherOk
       THEN wpc' = "events" /\ watching' = addOk
       ELSE wpc' = "ticker" /\ watching' = FALSE
    /\ UNCHANGED <<dryRun, spawns, envVars, cancelled, exitCode, mpc, logEntries, logLines, tailers, events, otherEvents,
                   tailVars, sinkVars, histVars>>

\* case <-ctx.Done() of either loop; the deferred watcher.Close().
Watch_Done ==
    /\ Running
    /\ wpc \in {"events", "ticker"}
    /\ cancelled
    /\ wpc' = "done"
    /\ watching' = FALSE
    /\ UNCHANGED <<dryRun, spawns, envVars, cancelled, exitCode, mpc, logEntries, logLines, tailers, events, otherEvents,
                   tailVars, sinkVars, histVars>>

\* Mutant of Watch_Event: an error of lookForFiles is ignored.
Watch_Event_ErrorIgnored(globOk) ==
    /\ Running
    /\ wpc = "events"
    /\ events > 0
    /\ events' = events - 1
    /\ UNCHANGED otherEvents
    /\ IF globOk THEN lookForFiles ELSE lookForFiles_Error
    /\ UNCHANGED <<dryRun, envVars, cancelled, exitCode, mpc, logEntries, logLines, wpc, watching,
                   logFile, offset, rbuf, lastFileInfo, pending, sinkVars, histVars>>

\* case event := <-watcher.Events with event.Has(fsnotify.Create); on an
\* error of lookForFiles Watch goes on to send it on quit.
Watch_Event(globOk) ==
    /\ Running
    /\ wpc = "events"
    /\ events > 0
    /\ events' = events - 1
    /\ UNCHANGED otherEvents
    /\ IF globOk
       THEN lookForFiles /\ UNCHANGED wpc
       ELSE lookForFiles_Error /\ wpc' = "quit"
    /\ UNCHANGED <<dryRun, envVars, cancelled, exitCode, mpc, logEntries, logLines, watching,
                   logFile, offset, rbuf, lastFileInfo, pending, sinkVars, histVars>>

\* The operations an event can carry besides Create.
OtherOps == {"write", "remove", "rename", "chmod"}

\* Something in the watched directory is written, removed, renamed or has its
\* mode changed, and the watch reports it.
Env_Notify(op) ==
    /\ Running
    /\ watching
    /\ Len(otherEvents) < MaxEvents
    /\ otherEvents' = Append(otherEvents, op)
    /\ UNCHANGED <<dryRun, spawns, envVars, cancelled, exitCode, mpc, logEntries, logLines, wpc, tailers,
                   watching, events, tailVars, sinkVars, histVars>>

\* Mutant of Watch_OtherEvent: every event makes Watch resolve the glob.
Watch_OtherEvent_Resolves ==
    /\ Running
    /\ wpc = "events"
    /\ otherEvents # <<>>
    /\ otherEvents' = Tail(otherEvents)
    /\ lookForFiles
    /\ UNCHANGED <<dryRun, envVars, cancelled, exitCode, mpc, logEntries, logLines, wpc, watching, events,
                   logFile, offset, rbuf, lastFileInfo, pending, sinkVars, histVars>>

\* case event := <-watcher.Events with event.Has(fsnotify.Create) false: the
\* event is dropped and the loop goes on.
Watch_OtherEvent ==
    /\ Running
    /\ wpc = "events"
    /\ otherEvents # <<>>
    /\ Head(otherEvents) \in OtherOps
    /\ otherEvents' = Tail(otherEvents)
    /\ UNCHANGED <<dryRun, spawns, envVars, cancelled, exitCode, mpc, logEntries, logLines, wpc, tailers,
                   watching, events, tailVars, sinkVars, histVars>>

\* Mutant of Watch_Error: Watch takes its tailers down with it.
Watch_Error_StopsTailers ==
    /\ Running
    /\ wpc = "events"
    /\ wpc' = "quit"
    /\ tpc' = [p \in Paths |-> IF p \in tailers THEN "done" ELSE tpc[p]]
    /\ UNCHANGED <<dryRun, spawns, envVars, cancelled, exitCode, mpc, logEntries, logLines, tailers, watching,
                   events, otherEvents, logFile, offset, rbuf, lastFileInfo, pending, sinkVars, histVars>>

\* case err = <-watcher.Errors: Watch goes on to send it on quit.
Watch_Error ==
    /\ Running
    /\ wpc = "events"
    /\ wpc' = "quit"
    /\ UNCHANGED <<dryRun, spawns, envVars, cancelled, exitCode, mpc, logEntries, logLines, tailers, watching,
                   events, otherEvents, tailVars, sinkVars, histVars>>

\* case <-newFileCheckTicker.C; on an error of lookForFiles Watch goes on to
\* send it on quit.
Watch_Tick(globOk) ==
    /\ Running
    /\ wpc = "ticker"
    /\ IF globOk
       THEN lookForFiles /\ UNCHANGED wpc
       ELSE lookForFiles_Error /\ wpc' = "quit"
    /\ UNCHANGED <<dryRun, envVars, cancelled, exitCode, mpc, logEntries, logLines, watching,
                   events, otherEvents, logFile, offset, rbuf, lastFileInfo, pending, sinkVars, histVars>>

\* ------------------------------------------------------------------- main
\* flag.Parse() and the check of -log-file.  flag.Parse, on the default
\* command line (flag.ExitOnError), ends the process with 2 when the arguments
\* do not parse (an undefined flag, a flag without its value); main ends it
\* with 1 when -log-file is missing.
main_Args(outcome) ==
    /\ Running
    /\ mpc = "args"
    /\ CASE outcome = "unparsable" -> exitCode' = 2 /\ UNCHANGED mpc
         [] outcome = "missing"    -> exitCode' = 1 /\ UNCHANGED mpc
         [] OTHER                  -> mpc' = "identity" /\ UNCHANGED exitCode
    /\ UNCHANGED <<dryRun, spawns, envVars, cancelled, logEntries, logLines, watchVars, tailVars,
                   sinkVars, histVars>>

\* The project and the cluster: given by -project-id (local mode), or read
\* from the Kubernetes API (getK8sClient, getPodInfo,
\* getProjectIDFromNamespace), where a failure ends the process with 2.
main_Identity(ok) ==
    /\ Running
    /\ mpc = "identity"
    /\ IF ok
       THEN mpc' = "start" /\ UNCHANGED exitCode
       ELSE exitCode' = 2 /\ UNCHANGED mpc
    /\ UNCHANGED <<dryRun, spawns, envVars, cancelled, logEntries, logLines, watchVars, tailVars,
                   sinkVars, histVars>>

\* main makes the channels and starts the file logger and Watch.
main_Start ==
    /\ Running
    /\ mpc = "start"
    /\ mpc' = "newclient"
    /\ fpc' = "run"
    /\ wpc' = "start"
    /\ UNCHANGED <<dryRun, spawns, envVars, cancelled, exitCode, logEntries, logLines, tailers, watching,
                   events, otherEvents, tailVars, apc, stdout, gcp, unflushed, histVars>>

\* In dry-run mode main starts the dry-run audit logger; no logging client is
\* created.
main_DryRun ==
    /\ Running
    /\ dryRun
    /\ mpc = "newclient"
    /\ mpc' = "select"
    /\ apc' = "run"
    /\ UNCHANGED <<dryRun, spawns, envVars, cancelled, exitCode, logEntries, logLines, watchVars,
                   tailVars, fpc, stdout, gcp, unflushed, histVars>>

\* logging.NewClient and the start of the audit logger.
main_NewClient(ok) ==
    /\ Running
    /\ ~dryRun
    /\ mpc = "newclient"
    /\ IF ok
       THEN mpc' = "select" /\ apc' = "run" /\ UNCHANGED exitCode
       ELSE exitCode' = 4 /\ UNCHANGED <<mpc, apc>>
    /\ UNCHANGED <<dryRun, spawns, envVars, cancelled, logEntries, logLines, watchVars, tailVars,
                   fpc, stdout, gcp, unflushed, histVars>>

\* main's final select: ctx.Done() ends the process with 0; an error received
\* on quit (sent by Watch or by the dry-run audit logger, which block until
\* main receives) ends it with 100.
main_Select ==
    /\ Running
    /\ mpc = "select"
    /\ \/ /\ cancelled
          /\ exitCode' = 0
          /\ UNCHANGED <<wpc, apc>>
       \/ /\ wpc = "quit"
          /\ exitCode' = 100
          /\ wpc' = "done"
          /\ UNCHANGED apc
       \/ /\ apc = "quit"
          /\ exitCode' = 100
          /\ apc' = "done"
          /\ UNCHANGED wpc
    /\ UNCHANGED <<dryRun, spawns, envVars, cancelled, mpc, logEntries, logLines, tailers, watching, events, otherEvents,
                   tailVars, fpc, stdout, gcp, unflushed, histVars>>

\* ------------------------------------------------------------------- Next
\* The external writer appending complete lines with texts K to the paths P.
Writer(P, K) ==
    \E p \in P : \E kind \in K : Env_AppendLine(p, kind)

\* The external writer appending a line in two writes.
SplitWriter(P, K) ==
    \E p \in P :
        \/ \E kind \in K : Env_AppendHead(p, kind)
        \/ Env_AppendTail(p)

\* Whatever rotates the files under the paths P.
Rotator(P) ==
    \E p \in P :
        \/ Env_Truncate(p)
        \/ Env_Delete(p)
        \/ Env_Create(p)

Tailer(p) ==
    \/ Tail_Open(p)
    \/ \E tick \in BOOLEAN : Tail_Loop(p, tick)
    \/ Tail_Read(p)
    \/ Tail_Send(p)

\* Watch, the glob resolutions ending with one of the given outcomes.
WatchOf(outcomes) ==
    \/ \E globOk \in outcomes : Watch_Start(globOk)
    \/ \E watcherOk, addOk \in BOOLEAN : Watch_NewWatcher(watcherOk, addOk)
    \/ Watch_Done
    \/ \E globOk \in outcomes : Watch_Event(globOk)
    \/ Watch_Error
    \/ \E globOk \in outcomes : Watch_Tick(globOk)

\* filepath.Glob returns an error only for a malformed pattern: with a
\* well-formed pattern every resolution succeeds.
WellFormedPattern == {TRUE}

Watch == WatchOf(WellFormedPattern)

main ==
    \/ \E ok \in BOOLEAN : main_NewClient(ok)
    \/ main_Select

\* The audit sink of either variant.
AuditSink ==
    \/ \E marshalOk \in BOOLEAN : AuditLogger_Log(marshalOk)
    \/ \E marshalOk \in BOOLEAN : DryRunAuditLogger_Log(marshalOk)

\* One tailer with its file, the writer, the file system and cancellation.
NextTail ==
    \/ Writer({"p1"}, LineKinds)
    \/ SplitWriter({"p1"}, {"log"})
    \/ Rotator({"p1"})
    \/ handleShutdown
    \/ Watch_Start(TRUE)
    \/ \E p \in Paths : Tailer(p)

SpecTail == Init /\ [][NextTail]_vars

\* Files appearing and disappearing under the paths P.
FileSystem(P) ==
    \E p \in P :
        \/ Env_Delete(p)
        \/ Env_Create(p)

\* The watcher and main, with files appearing and disappearing.
NextWatch ==
    \/ FileSystem(Paths)
    \/ handleShutdown
    \/ Watch
    \/ main

SpecWatch == Init /\ [][NextWatch]_vars

\* Two tailers, each with its file, feeding the two channels and the sinks,
\* up to cancellation, the serialization of the audit entries succeeding.
InitPipe == InitWith(Paths, 1..MaxPipeLines)

NextPipe ==
    \/ Writer({"p1"}, LineKinds)
    \/ Writer({"p2"}, {"log"})
    \/ Watch_Start(TRUE)
    \/ \E p \in Paths : Tailer(p)
    \/ FileLogger_Log
    \/ AuditLogger_Log(TRUE)
    \/ \E ok \in BOOLEAN : main_NewClient(ok)

SpecPipe == InitPipe /\ [][NextPipe]_vars

\* One tailer whose file grows by a burst larger than a channel, and the
\* sinks, up to cancellation, the serialization of the audit entries
\* succeeding.
InitBurst == InitWith({"p1"}, 1..BurstLines)

NextBurst ==
    \/ \E kind \in LineKinds : Env_AppendBurst("p1", kind)
    \/ Watch_Start(TRUE)
    \/ \E p \in Paths : Tailer(p)
    \/ FileLogger_Log
    \/ AuditLogger_Log(TRUE)
    \/ \E ok \in BOOLEAN : main_NewClient(ok)

SpecBurst == InitBurst /\ [][NextBurst]_vars

\* One tailer whose file receives lines that are JSON objects and lines that
\* are not.
NextParse ==
    \/ Writer({"p1"}, {"log", "bad", "null"})
    \/ handleShutdown
    \/ Watch_Start(TRUE)
    \/ \E p \in Paths : Tailer(p)

SpecParse == Init /\ [][NextParse]_vars

\* The audit sink alone, with one entry in its channel.  The entry's message
\* is "AUDIT: " followed by comma-separated fields, or its members user,
\* dbname and backend_type vary.
FieldTexts == {<<>>, <<"SESSION">>, <<"READ">>}

SessionExample ==
    <<(<<"SESSION">>), (<<"15">>), (<<"1">>), (<<"READ">>), (<<"SELECT">>), (<<>>), (<<>>),
      (<<"SELECT", " ", "1">>)>>

ObjectExample == <<(<<"OBJECT">>)>>

FieldLists ==
    UNION {[1..n -> FieldTexts] : n \in 1..MaxFields} \cup {SessionExample, ObjectExample}

\* strings.Join(fields, ","), the text the writer puts after "AUDIT: ".
RECURSIVE Join(_)
Join(fields) ==
    IF Len(fields) = 1 THEN fields[1] ELSE fields[1] \o <<",">> \o Join(Tail(fields))

MemberValues ==
    {AbsentField, [t |-> "string", v |-> <<>>], [t |-> "string", v |-> <<"postgres">>],
     [t |-> "number", v |-> <<"7">>]}

AuditEntries ==
    {[id |-> 1, msgType |-> "string", message |-> auditPrefix \o Join(F),
      user |-> AbsentField, dbname |-> AbsentField, backend_type |-> AbsentField] :
        F \in FieldLists}
    \cup
    {[id |-> 1, msgType |-> "string", message |-> auditPrefix \o Join(ObjectExample),
      user |-> u, dbname |-> d, backend_type |-> b] :
        u \in MemberValues, d \in MemberValues, b \in MemberValues}

InitExtract ==
    \E e \in AuditEntries : InitFrom({"p1"}, LineIds, "select", <<e>>, "run", FALSE)

NextExtract ==
    \/ AuditLogger_Log(TRUE)
    \/ handleShutdown

SpecExtract == InitExtract /\ [][NextExtract]_vars

\* ---------------------------------------------------------------- claims
\* Number of chunks of its file the tailer of p has read and finished with
\* (the line it is about to enqueue is not finished).
ConsumedPos(p) == offset[p] - Len(rbuf[p]) - Len(pending[p])

\* The tailer of p is tailing an open handle on a file that was neither
\* truncated nor deleted since the tailer opened it, and is not cancelled.
Undisturbed(p) ==
    /\ HasOpened(p)
    /\ ~logFile[p].closed
    /\ rotated[p] = "none"
    /\ ~cancelled

Enqueues(id) == sent[id].a + sent[id].p

\* A chunk that is a complete line holding a JSON object.
ValidLine(c) == c.part = "whole" /\ c.kind \in {"audit", "log", "nomsg", "number"}

\* What the claims require of a complete valid line c that the tailer has
\* (done = TRUE) or has not yet (done = FALSE) finished with.
RoutedOnce(c, done) ==
    /\ sent[c.id].a = (IF done /\ c.kind = "audit" THEN 1 ELSE 0)
    /\ sent[c.id].p = (IF done /\ c.kind # "audit" THEN 1 ELSE 0)

\* C1: every complete valid JSON line appended (in one write) to the file
\* after the tailer opened it, with no rotation and no cancellation since, is
\* enqueued exactly once, on the audit channel iff its message starts with
\* "AUDIT:", and never on the other channel; before the tailer reaches it, it
\* is on neither.
C1_RoutedExactlyOnce ==
    \A p \in Paths :
        Undisturbed(p) =>
            \A k \in (lastFileInfo[p].size + 1)..FileSize(logFile[p].ino) :
                ValidLine(content[logFile[p].ino][k]) =>
                    RoutedOnce(content[logFile[p].ino][k], k <= ConsumedPos(p))

\* C1 witness: an audit line and a non-audit line appended after the open have
\* both been enqueued, each on its own channel.
C1_Witness ==
    \E p \in Paths :
        /\ Undisturbed(p)
        /\ \E k, m \in (lastFileInfo[p].size + 1)..FileSize(logFile[p].ino) :
              /\ k <= ConsumedPos(p) /\ m <= ConsumedPos(p)
              /\ ValidLine(content[logFile[p].ino][k])
              /\ ValidLine(content[logFile[p].ino][m])
              /\ content[logFile[p].ino][k].kind = "audit"
              /\ content[logFile[p].ino][m].kind = "log"
              /\ sent[content[logFile[p].ino][k].id].a = 1
              /\ sent[content[logFile[p].ino][m].id].p = 1

\* C2 (as claimed): a valid line that reached the file in two writes, head
\* then tail, both after the open, has been enqueued exactly once when the
\* tailer has read past its terminator (the head was kept buffered).
C2_SplitLineDispatchedOnce ==
    \A p \in Paths :
        Undisturbed(p) =>
            \A k \in (startPos[p] + 2)..FileSize(logFile[p].ino) :
                ( /\ k <= ConsumedPos(p)
                  /\ content[logFile[p].ino][k].part = "tail"
                  /\ content[logFile[p].ino][k].kind \in {"audit", "log"} )
                => Enqueues(content[logFile[p].ino][k].id) = 1

\* C3 (as claimed): once the file the tailer holds open was truncated and has
\* new content, a rotation check that runs detects it (the tailer reopens, so
\* no executed check leaves the truncation unnoticed).
C3_TruncationDetectedByNextCheck ==
    \A p \in Paths :
        ~( /\ HasOpened(p)
           /\ rotated[p] = "truncate"
           /\ dir[p] # 0
           /\ FileSize(dir[p]) > 0
           /\ checked[p] )

\* C4: once the tailed file was deleted and a file exists again under the
\* path, a rotation check that runs detects the rotation and the tailer holds
\* an open handle on the file now under the path.
C4_RecreationDetectedByNextCheck ==
    \A p \in Paths :
        (HasOpened(p) /\ checked[p] /\ dir[p] # 0) =>
            /\ rotated[p] # "delete"
            /\ logFile[p].ino = dir[p]
            /\ ~logFile[p].closed
            /\ lastFileInfo[p].ino = dir[p]

\* C4 witness: the tailer holds the recreated file (a second identity) after a
\* rotation check and has enqueued a line of it.
C4_Witness ==
    \E p \in Paths :
        /\ HasOpened(p) /\ checked[p]
        /\ dir[p] # 0
        /\ logFile[p].ino = dir[p]
        /\ ~logFile[p].first
        /\ lastFileInfo[p].ino > 1
        /\ \E k \in 1..FileSize(dir[p]) : Enqueues(content[dir[p]][k].id) = 1

Routed(c) ==
    /\ (c.kind = "audit") => (sent[c.id].a >= 1 /\ sent[c.id].p = 0)
    /\ (c.kind # "audit") => (sent[c.id].p >= 1 /\ sent[c.id].a = 0)

\* C10: after a rotation was detected and the reopen succeeded the cursor is
\* at the start of the new file: every complete valid line of it, including
\* those written before the reopen, has been enqueued when the tailer has read
\* past it.
C10_ReopenReadsFromStart ==
    \A p \in Paths :
        (Undisturbed(p) /\ ~logFile[p].first) =>
            /\ startPos[p] = 0
            /\ \A k \in 1..FileSize(logFile[p].ino) :
                  (k <= ConsumedPos(p) /\ ValidLine(content[logFile[p].ino][k]))
                      => Routed(content[logFile[p].ino][k])

\* C10 witness: a line that was in the new file before the reopen has been
\* enqueued from the reopened handle.
C10_Witness ==
    \E p \in Paths :
        /\ Undisturbed(p) /\ ~logFile[p].first
        /\ lastFileInfo[p].size > 0
        /\ ConsumedPos(p) >= 1
        /\ ValidLine(content[logFile[p].ino][1])
        /\ Enqueues(content[logFile[p].ino][1].id) = 1

\* C6: once the context is cancelled no worker is left without a step to
\* take: every tailer that was spawned, the watcher and both sinks have
\* either returned or can take a step that changes the state (a worker that
\* can only repeat the step it is at never returns).  The tailer that is
\* retrying to open a file that does not exist breaks this.
C6_WorkersReturnAfterCancel ==
    (cancelled /\ Running) =>
        /\ \A p \in tailers : tpc[p] = "done" \/ ENABLED <<Tailer(p)>>_vars
        /\ fpc = "done" \/ ENABLED <<FileLogger_Log>>_vars
        /\ apc \in {"none", "done"} \/ ENABLED <<AuditSink>>_vars
        /\ wpc = "done" \/ ENABLED <<Watch \/ main>>_vars

\* C5: in event mode, when Watch has no create event left to handle (and
\* the process runs uncancelled), every file that exists under a matching
\* path has its tailer.  A file created between the first glob and
\* watcher.Add, or while watcher.Add has failed, breaks this.
C5_NewFileGetsTailer ==
    (Running /\ ~cancelled /\ wpc = "events" /\ events = 0) =>
        \A p \in Paths : dir[p] # 0 => p \in tailers

\* The ids of the records a sink has received or will receive, in order:
\* what it has emitted, then what waits in its channel.
AuditOrder ==
    [i \in 1..Len(gcp) |-> gcp[i].id] \o [i \in 1..Len(logEntries) |-> logEntries[i].id]

PassthroughOrder ==
    [i \in 1..Len(stdout) |-> stdout[i][1].id] \o [i \in 1..Len(logLines) |-> logLines[i][1].id]

\* Records of the same file come in the order of their lines in the file
\* (line ids grow in the order the writer appends).
FileOrdered(order) ==
    \A i, j \in 1..Len(order) :
        (i < j /\ lineFile[order[i]] = lineFile[order[j]]) => order[i] < order[j]

\* C8: the records of one file reach each sink in the order the tailer read
\* them, whatever the other tailer puts into the same channel in between.
C8_PerFileOrder ==
    /\ FileOrdered(AuditOrder)
    /\ FileOrdered(PassthroughOrder)

\* The passthrough sink has printed two lines of one file with a line of the
\* other file between them.
C8_Witness ==
    /\ Len(stdout) = 3
    /\ lineFile[stdout[1][1].id] = lineFile[stdout[3][1].id]
    /\ lineFile[stdout[2][1].id] # lineFile[stdout[1][1].id]

\* The tailer of p is at the enqueue of its pending record and the channel
\* the record goes to is full.
Blocked(p) ==
    /\ tpc[p] = "send"
    /\ ~cancelled
    /\ IF IsAudit(JsonUnmarshal(pending[p]).entry)
       THEN Len(logEntries) >= auditLogEntryCapacity
       ELSE Len(logLines) >= fileLogLinesCapacity

\* Every record the only tailer has finished with is in a channel or has
\* left it to a sink (all lines of a burst are valid records).
NothingDropped ==
    (HasOpened("p1") /\ ~cancelled) =>
        ConsumedPos("p1") - startPos["p1"] =
            Len(logEntries) + Len(gcp) + Len(logLines) + Len(stdout)

\* A blocked tailer keeps its pending record and reads no further line.
BlockedStays ==
    \A p \in Paths :
        Blocked(p) => /\ tpc'[p] = tpc[p]
                      /\ pending'[p] = pending[p]
                      /\ offset'[p] = offset[p]
                      /\ rbuf'[p] = rbuf[p]

\* Without cancellation the tailer leaves the enqueue only by putting its
\* pending record at the end of the record's channel.
LeavesByEnqueue ==
    \A p \in Paths :
        (tpc[p] = "send" /\ tpc'[p] # "send" /\ ~cancelled) =>
            IF IsAudit(JsonUnmarshal(pending[p]).entry)
            THEN logEntries' = Append(logEntries, JsonUnmarshal(pending[p]).entry)
            ELSE logLines' = Append(logLines, pending[p])

\* C7: a channel never holds more records than its capacity; the tailer
\* whose channel is full stays at the enqueue with its record and reads no
\* further line; it goes on only by enqueuing the record (unless cancelled);
\* nothing is dropped.
C7_Backpressure ==
    /\ [](Len(logEntries) <= auditLogEntryCapacity /\ Len(logLines) <= fileLogLinesCapacity)
    /\ []NothingDropped
    /\ [][BlockedStays /\ LeavesByEnqueue]_vars

\* The tailer is blocked at the enqueue of a record, its channel being full.
C7_Witness == \E p \in Paths : Blocked(p)

\* C11: a line that is not a JSON object is enqueued on neither channel and
\* does not end the tailer: while the file is not rotated and the context is
\* not cancelled, of the lines the tailer has read those that are no JSON
\* object were never enqueued, the valid ones were enqueued once, and the
\* tailer has not returned.  The line `null` breaks this: it is no object and
\* is enqueued on the passthrough channel.
C11_MalformedLineDropped ==
    /\ \A p \in Paths : tpc[p] = "done" => cancelled
    /\ \A p \in Paths :
          Undisturbed(p) =>
              \A k \in (startPos[p] + 1)..ConsumedPos(p) :
                  LET c == content[logFile[p].ino][k]
                  IN  IF Document(c.kind).object
                      THEN RoutedOnce(c, TRUE)
                      ELSE Enqueues(c.id) = 0

\* C16: at most one tailer is ever started for a path: a path has a tailer
\* exactly when it is in the map of Watch, and whatever create events, ticks
\* and glob resolutions occur no second one is started for it.
C16_OneTailerPerPath ==
    \A p \in Paths :
        /\ spawns[p] <= 1
        /\ (spawns[p] = 1) <=> (p \in tailers)
        /\ (p \in tailers) <=> (tpc[p] # "none")

\* C16 witness: both paths were found by lookForFiles and each has had one
\* tailer started, the first path still matching.
C16_Witness ==
    /\ spawns["p1"] = 1
    /\ spawns["p2"] = 1
    /\ dir["p1"] # 0

\* The label `name` is set exactly when `present` holds, and then to `value`.
LabelIs(L, name, present, value) ==
    /\ (name \in DOMAIN L) <=> present
    /\ present => L[name] = value

\* C12: for the message "AUDIT: " followed by the comma-separated fields
\* f0..fn the submitted record has auditType = f0 iff f0 is not empty,
\* auditClass = f3 iff n >= 3 and f3 is not empty, command = f4 iff n >= 4 and
\* f4 is not empty, and no label from another position; every entry taken
\* from the channel gives a record (the extraction never fails).
C12_ExtractorPositions ==
    /\ apc = "run" => Len(gcp) + Len(logEntries) = 1
    /\ \A i \in 1..Len(gcp) :
          \A F \in FieldLists :
              (gcp[i].payload.message = auditPrefix \o Join(F)) =>
                  /\ LabelIs(gcp[i].labels, "auditType", F[1] # <<>>, F[1])
                  /\ LabelIs(gcp[i].labels, "auditClass", Len(F) > 3 /\ F[4] # <<>>,
                             IF Len(F) > 3 THEN F[4] ELSE <<>>)
                  /\ LabelIs(gcp[i].labels, "command", Len(F) > 4 /\ F[5] # <<>>,
                             IF Len(F) > 4 THEN F[5] ELSE <<>>)
                  /\ DOMAIN gcp[i].labels \subseteq
                        {"databaseId", "user", "databaseName", "backendType",
                         "auditType", "auditClass", "command"}

\* C12 witness: the record of `AUDIT: SESSION,15,1,READ,SELECT,,,SELECT 1`
\* was submitted with the labels SESSION, READ and SELECT.
C12_Witness ==
    \E i \in 1..Len(gcp) :
        /\ gcp[i].payload.message = auditPrefix \o Join(SessionExample)
        /\ gcp[i].labels["auditType"] = <<"SESSION">>
        /\ gcp[i].labels["auditClass"] = <<"READ">>
        /\ gcp[i].labels["command"] = <<"SELECT">>

InitSink ==
    \E dry \in BOOLEAN : InitFrom({"p1"}, LineIds, "newclient", <<>>, "none", dry)

NextSink ==
    \/ Writer({"p1"}, LineKinds)
    \/ handleShutdown
    \/ Watch_Start(TRUE)
    \/ \E p \in Paths : Tailer(p)
    \/ FileLogger_Log
    \/ AuditSink
    \/ \E ok \in BOOLEAN : main_NewClient(ok)
    \/ main_DryRun
    \/ main_Select

SpecSink == InitSink /\ [][NextSink]_vars

\* The line the writer appended with this id, as the tailer reads it.
LineOf(id) ==
    <<CHOOSE c \in UNION {{content[i][k] : k \in 1..Len(content[i])} : i \in Inodes} :
          c.id = id>>

\* How often a text is among the lines written to standard output.
Printed(text) == Cardinality({k \in 1..Len(stdout) : stdout[k] = text})

\* How many records of a line wait in the audit / the passthrough channel.
WaitingEntries(id) == Cardinality({k \in 1..Len(logEntries) : logEntries[k].id = id})
WaitingLines(id) == Cardinality({k \in 1..Len(logLines) : logLines[k][1].id = id})

\* The records of a line an audit / passthrough sink has dequeued.
DequeuedEntries(id) == sent[id].a - WaitingEntries(id)
DequeuedLines(id) == sent[id].p - WaitingLines(id)

\* What the passthrough sink has to print for a line.
PassthroughText(id) ==
    IF dryRun THEN <<DryRunPrefix("[DRY-RUN STDOUT] ")>> \o LineOf(id) ELSE LineOf(id)

\* Nothing but the texts of dequeued records is on standard output, the
\* audit texts only in dry-run mode; in dry-run mode nothing is submitted.
OnlyRecordsPrinted ==
    /\ dryRun => gcp = <<>>
    /\ \A k \in 1..Len(stdout) :
          \E id \in 1..(nextId - 1) :
              \/ stdout[k] = PassthroughText(id)
              \/ dryRun /\ stdout[k] = PrintEntry([id |-> id])

\* Every dequeued passthrough line is on standard output once, prefixed in
\* dry-run mode and verbatim otherwise.
PassthroughPrintedOnce ==
    \A id \in 1..(nextId - 1) : Printed(PassthroughText(id)) = DequeuedLines(id)

\* The dry-run audit sink has met an entry it could not serialize (in this
\* specification nothing else ends the process with the fatal code).
SerializationFailed == apc = "quit" \/ exitCode = 100

C18_AddFailureReported ==
    (Running /\ wpc = "events") => watching

\* A polling tick can start a tailer for every match not yet tracked.
TickResolves ==
    ENABLED <<Watch_Tick(TRUE) /\ tailers' = tailers \cup Glob>>_vars

\* C19: when fsnotify.NewWatcher fails Watch reports nothing on quit and
\* polls: each tick can run, a tick starts exactly one tailer for every
\* match not yet tracked, and Watch leaves the polling loop only by
\* cancellation.
C19_TickerFallback ==
    /\ [][(Watch_NewWatcher(FALSE, TRUE) \/ Watch_NewWatcher(FALSE, FALSE)) =>
              wpc' = "ticker"]_vars
    /\ [][wpc = "ticker" => \/ wpc' = "ticker"
                            \/ cancelled /\ wpc' = "done"]_vars
    /\ [][(wpc = "ticker" /\ spawns' # spawns) =>
              /\ tailers' = tailers \cup Glob
              /\ \A p \in Paths :
                    spawns'[p] = spawns[p] + (IF p \in Glob \ tailers THEN 1 ELSE 0)]_vars
    /\ []((Running /\ wpc = "ticker" /\ Glob \ tailers # {}) => TickResolves)

\* C19 witness: Watch polls, a matching file has no tailer yet, and the tick
\* that starts its tailer can run.
C19_Witness ==
    /\ Running /\ ~cancelled
    /\ wpc = "ticker"
    /\ dir["p2"] # 0 /\ "p2" \notin tailers
    /\ ENABLED <<Watch_Tick(TRUE) /\ "p2" \in tailers' /\ tpc'["p2"] = "opening">>_vars

\* ---------------------------------------------------------------------
\* The watcher and main when a glob resolution can fail at each call (the
\* watcher's error channel stays silent, so that only these failures are
\* reported on quit).

NextGlob ==
    \/ FileSystem(Paths)
    \/ handleShutdown
    \/ \E globOk \in BOOLEAN : Watch_Start(globOk)
    \/ \E watcherOk, addOk \in BOOLEAN : Watch_NewWatcher(watcherOk, addOk)
    \/ Watch_Done
    \/ \E globOk \in BOOLEAN : Watch_Event(globOk)
    \/ \E globOk \in BOOLEAN : Watch_Tick(globOk)
    \/ main

SpecGlob == Init /\ [][NextGlob]_vars

\* A glob resolution of Watch that fails.
GlobFailure == Watch_Start(FALSE) \/ Watch_Event(FALSE) \/ Watch_Tick(FALSE)

\* C20 as stated: a process in which a glob resolution failed ends with the
\* runtime-fatal code (the error is still offered on quit, or main received
\* it).
C20_GlobFailureExitsFatal ==
    (~Running /\ wpc = "quit") => exitCode = 100

\* C20 amended: a failing glob resolution, at start, on a create event or on
\* a tick, starts no tailer and takes Watch to the send on quit, where Watch
\* does nothing more; main at its select can receive the error, and receiving
\* it ends the process with the runtime-fatal code; the process ends
\* otherwise only by the signal (0) or by the failure to create the logging
\* client (4).
C20_GlobFailureReported ==
    /\ [][GlobFailure => (wpc' = "quit" /\ tailers' = tailers /\ spawns' = spawns)]_vars
    /\ [][wpc = "quit" =>
              \/ wpc' = "quit" /\ tailers' = tailers /\ spawns' = spawns
              \/ wpc' = "done" /\ exitCode' = 100]_vars
    /\ []((Running /\ wpc = "quit" /\ mpc = "select") =>
              ENABLED <<main_Select /\ exitCode' = 100>>_vars)
    /\ []((~Running /\ wpc = "quit") =>
              \/ exitCode = 0 /\ cancelled
              \/ exitCode = 4)

\* C20 witness: after a first resolution that started a tailer, a later one
\* failed, main received the error and the process ended with 100.
C20_Witness ==
    /\ exitCode = 100
    /\ wpc = "done"
    /\ tailers # {}

\* ---------------------------------------------------------------------
\* main from its first statement: the arguments, the identity, the start of
\* the workers, the logging client and the final select, with the watcher
\* and the file system.

InitMain == InitFrom({"p1"}, LineIds, "args", <<>>, "none", FALSE)

ArgOutcomes == {"ok", "missing", "unparsable"}

NextMain ==
    \/ \E outcome \in ArgOutcomes : main_Args(outcome)
    \/ \E ok \in BOOLEAN : main_Identity(ok)
    \/ main_Start
    \/ main
    \/ Watch
    \/ FileSystem(Paths)
    \/ handleShutdown

SpecMain == InitMain /\ [][NextMain]_vars

\* Why the process ends in a step that sets the exit code: the position of
\* main, and at the final select whether an error was received on quit.
EndClass ==
    CASE mpc = "args"      -> "bad arguments"
      [] mpc = "identity"  -> "identity resolution"
      [] mpc = "newclient" -> "sink construction"
      [] OTHER             -> IF wpc' # wpc \/ apc' # apc THEN "runtime fatal" ELSE "signal"

\* The one class an exit code stands for.
ClassOfCode(code) ==
    CASE code = 0   -> "signal"
      [] code = 1   -> "bad arguments"
      [] code = 2   -> "identity resolution"
      [] code = 4   -> "sink construction"
      [] code = 100 -> "runtime fatal"
      [] OTHER      -> "none"

\* C15: the exit code tells the class: whenever the process ends, its code is
\* the code of the class it ended for, the four failure classes having four
\* non-zero codes and the termination signal 0.
C15_ExitCodeTellsClass ==
    [][exitCode' # exitCode => ClassOfCode(exitCode') = EndClass]_vars

\* C21: no line is enqueued more than once (a line belongs to one file
\* identity): what the tailer read through a handle it held across a
\* truncation is not enqueued again after the reopen.
C21_AtMostOncePerIdentity ==
    \A id \in DOMAIN sent : Enqueues(id) <= 1

\* The tailer of p has returned only after cancellation.
ClosedOnlyByCancellation(p) == tpc[p] = "done" => cancelled

\* C22: a tailer that has returned has closed the handle it held at that
\* moment, also one it got from a reopen, and it returns only after
\* cancellation.
C22_HandleReleasedAtReturn ==
    \A p \in Paths :
        /\ tpc[p] = "done" => logFile[p].closed
        /\ ClosedOnlyByCancellation(p)

\* C23: while the handle in logFile is closed (the stale handle was closed
\* and the reopen failed) the tailer is not about to read from it.
C23_NoReadOnClosedHandle ==
    \A p \in Paths :
        (HasOpened(p) /\ logFile[p].closed) => tpc[p] # "read"

\* C24: whatever text the tailer read and gave up was given up on a path
\* that writes a log record (of the text or at least of the event).
C24_NoSilentDiscard ==
    \A id \in DOMAIN discarded : discarded[id] # "silent"

\* ---------------------------------------------------------------------
\* A file that appears while the watcher runs: it is created after the first
\* glob resolution, the writer writes to it at once, and the watcher finds it
\* by a create event or a polling tick.

\* A matching file is created once Watch has resolved the glob for the first
\* time.
Env_CreateLater(p) ==
    /\ wpc # "start"
    /\ Env_Create(p)

NextNewFile ==
    \/ Env_CreateLater("p2")
    \/ Writer({"p2"}, LineKinds)
    \/ \E p \in Paths : Tailer(p)
    \/ Watch_Start(TRUE)
    \/ \E watcherOk, addOk \in BOOLEAN : Watch_NewWatcher(watcherOk, addOk)
    \/ Watch_Event(TRUE)
    \/ Watch_Tick(TRUE)

SpecNewFile == Init /\ [][NextNewFile]_vars

\* C25: every complete valid line of a file created while the watcher runs,
\* that its tailer has got past, was enqueued once on its channel, the lines
\* written before the tailer's first open included.
C25_NewFileFullyDispatched ==
    Undisturbed("p2") =>
        \A k \in 1..FileSize(logFile["p2"].ino) :
            (k <= ConsumedPos("p2") /\ ValidLine(content[logFile["p2"].ino][k])) =>
                RoutedOnce(content[logFile["p2"].ino][k], TRUE)

\* ---------------------------------------------------------------------
\* A tailer whose file comes and goes: the file is deleted and created
\* again at any moment, before the tailer's first open as well, and the
\* writer appends to it.

NextOpen ==
    \/ FileSystem({"p1"})
    \/ Writer({"p1"}, LineKinds)
    \/ handleShutdown
    \/ Watch_Start(TRUE)
    \/ \E p \in Paths : Tailer(p)

SpecOpen == Init /\ [][NextOpen]_vars

\* The tailer of p is started and has not yet opened its file.
Opening(p) == tpc[p] = "opening"

\* C26: a tailer in Opening whose file is missing stays in Opening, whatever
\* it does; no step of a tailer touches the watcher, main or the exit code; a
\* tailer in Opening whose file exists can open it and is then tailing; and
\* every complete valid line appended after that open, the file undisturbed,
\* is enqueued once on its channel when the tailer has got past it.
C26_OpeningRetriesUntilOpenable ==
    /\ [][\A p \in Paths : (Opening(p) /\ dir[p] = 0) => Opening(p)']_vars
    /\ [][(\E p \in Paths : Tailer(p)) =>
              UNCHANGED <<wpc, mpc, exitCode, cancelled>>]_vars
    /\ [][\A p \in Paths : (Opening(p) /\ dir[p] # 0 /\ Tail_Open(p)) =>
              (tpc'[p] = "loop" /\ ~logFile'[p].closed /\ logFile'[p].ino = dir[p])]_vars
    /\ [](\A p \in Paths : (Running /\ Opening(p) /\ dir[p] # 0) =>
              ENABLED <<Tail_Open(p)>>_vars)
    /\ [](\A p \in Paths :
              (Undisturbed(p) /\ logFile[p].first) =>
                  \A k \in (startPos[p] + 1)..FileSize(logFile[p].ino) :
                      (k <= ConsumedPos(p) /\ ValidLine(content[logFile[p].ino][k])) =>
                          RoutedOnce(content[logFile[p].ino][k], TRUE))

\* C26 witness: the file the tailer was started for had gone before the
\* tailer could open it; the tailer opened the file created in its place and
\* has enqueued a line appended after that open.
C26_Witness ==
    /\ Undisturbed("p1")
    /\ logFile["p1"].first
    /\ logFile["p1"].ino > 1
    /\ \E k \in (startPos["p1"] + 1)..FileSize(logFile["p1"].ino) :
          Enqueues(content[logFile["p1"].ino][k].id) = 1

\* ---------------------------------------------------------------------
\* Two matching files of which any may disappear before its tailer opens
\* it: both exist at the start, files are only deleted, so both tailers can
\* only come from the same glob resolution.

NextSpawn ==
    \/ \E p \in Paths : Env_Delete(p)
    \/ Writer({"p2"}, {"log"})
    \/ Watch_Start(TRUE)
    \/ \E watcherOk, addOk \in BOOLEAN : Watch_NewWatcher(watcherOk, addOk)
    \/ Watch_Tick(TRUE)
    \/ \E p \in Paths : Tailer(p)

SpecSpawn == InitPipe /\ [][NextSpawn]_vars

\* A glob resolution of Watch that succeeds.
GlobResolution == Watch_Start(TRUE) \/ Watch_Event(TRUE) \/ Watch_Tick(TRUE)

\* C27: a tailer that cannot open its path changes nothing of the watcher,
\* of main or of the exit code (nothing is sent on quit, the watcher goes
\* on); a glob resolution starts a tailer for every match not yet tracked and
\* leaves the other tailers alone, whatever state they are in; and next to a
\* tailer that cannot open its file another tailer can open its own.
C27_SpawnFailureNotFatal ==
    /\ [][(\E p \in Paths : Opening(p) /\ dir[p] = 0 /\ Tail_Open(p)) =>
              UNCHANGED <<watchVars, mpc, exitCode, cancelled>>]_vars
    /\ [][GlobResolution =>
              /\ tailers' = tailers \cup Glob
              /\ \A p \in Glob \ tailers : Opening(p)'
              /\ \A p \in tailers : tpc'[p] = tpc[p]]_vars
    /\ [](\A p, q \in Paths :
              (Running /\ Opening(p) /\ dir[p] = 0 /\ Opening(q) /\ dir[q] # 0) =>
                  ENABLED <<Tail_Open(q) /\ tpc'[q] = "loop">>_vars)
    /\ [](wpc # "quit" /\ Running)

\* C27 witness: of two tailers started by the same glob resolution one
\* cannot open its file and retries, the other is tailing, and the watcher
\* polls.
C27_Witness ==
    /\ Running
    /\ tailers = Paths
    /\ Opening("p1") /\ dir["p1"] = 0
    /\ HasOpened("p2")
    /\ wpc = "ticker"

\* ---------------------------------------------------------------------
\* The watcher in its event loop with an event source that can fail, a
\* tailer at work and main.

NextEventError ==
    \/ Env_Create("p2")
    \/ Writer({"p1"}, {"log"})
    \/ handleShutdown
    \/ Watch
    \/ \E p \in Paths : Tailer(p)
    \/ main

SpecEventError == Init /\ [][NextEventError]_vars

\* C28: an error of the event source takes Watch from its event loop to the
\* send on quit and changes nothing of the tailers; from there Watch does
\* nothing but hand the error to main, which ends the process with 100; and
\* while the error waits on quit a tailer that is reading or enqueueing can go
\* on.
C28_EventErrorReported ==
    /\ [][Watch_Error => (wpc = "events" /\ wpc' = "quit" /\ UNCHANGED <<tailers, tailVars>>)]_vars
    /\ [][wpc = "quit" =>
              \/ wpc' = "quit" /\ UNCHANGED <<tailers, spawns>>
              \/ wpc' = "done" /\ exitCode' = 100 /\ UNCHANGED <<tailers, tailVars>>]_vars
    /\ [](\A p \in Paths :
              (Running /\ ~cancelled /\ wpc = "quit" /\ tpc[p] \in {"loop", "read", "send"}) =>
                  ENABLED <<Tailer(p)>>_vars)

\* C28 witness: the watcher has reported an error of the event source and
\* waits on quit, and the tailer it had started is about to enqueue a record.
C28_Witness ==
    /\ Running /\ ~cancelled
    /\ wpc = "quit"
    /\ tpc["p1"] = "send"
    /\ ENABLED <<Tail_Send("p1") /\ Len(logLines') = Len(logLines) + 1>>_vars

\* ---------------------------------------------------------------------
\* One tailer with its file written in whole lines, truncated, deleted and
\* created again, up to cancellation.

NextRotation ==
    \/ Writer({"p1"}, LineKinds)
    \/ Rotator({"p1"})
    \/ handleShutdown
    \/ Watch_Start(TRUE)
    \/ \E p \in Paths : Tailer(p)

SpecRotation == Init /\ [][NextRotation]_vars

\* ---------------------------------------------------------------------
\* The conditions of a rotation, read off the file system and the tailer's
\* last observation of its file.
CannotStat(p) == dir[p] = 0
IdentityDiffers(p) == dir[p] # 0 /\ dir[p] # lastFileInfo[p].ino
SizeDecreased(p) == dir[p] # 0 /\ FileSize(dir[p]) < lastFileInfo[p].size
RotationDue(p) == CannotStat(p) \/ IdentityDiffers(p) \/ SizeDecreased(p)

\* A rotation check of the tailer of p that finds it running.
RotationCheck(p) == Tail_Loop(p, TRUE) /\ ~cancelled

\* The handle and the reader of the tailer of p.
Handle(p) == <<logFile[p], offset[p], rbuf[p]>>

InitAudit == InitFrom({"p1"}, LineIds, "newclient", <<>>, "none", FALSE)

NextAudit ==
    \/ Writer({"p1"}, {"audit"})
    \/ handleShutdown
    \/ Watch_Start(TRUE)
    \/ \E p \in Paths : Tailer(p)
    \/ \E marshalOk \in BOOLEAN : AuditLogger_Submit(marshalOk)
    \/ \E flushOk \in BOOLEAN : AuditLogger_Flush(flushOk)
    \/ \E ok \in BOOLEAN : main_NewClient(ok)
    \/ main_Select

SpecAudit == InitAudit /\ [][NextAudit]_vars

\* C30: at most one record is handed to the client without its Flush having
\* returned, and an entry leaves the audit channel only while there is none:
\* the Flush of a record has returned before the next entry is taken.
C30_OneRecordAtATime ==
    /\ [](Len(unflushed) <= 1)
    /\ [](unflushed # <<>> => apc = "flush")
    /\ [][Len(logEntries') < Len(logEntries) => unflushed = <<>>]_vars

\* C30 witness: a record is handed to the client and its Flush is running while
\* the next entry waits in the channel.
C30_Witness ==
    /\ Running
    /\ apc = "flush"
    /\ Len(unflushed) = 1
    /\ Len(gcp) = 1
    /\ Len(logEntries) > 0

\* ---------------------------------------------------------------------
\* A tailer and the audit sink, with audit messages that have a space after
\* "AUDIT:" and audit messages that have none.

InitLabel == InitFrom({"p1"}, LineIds, "select", <<>>, "run", FALSE)

NextLabel ==
    \/ Writer({"p1"}, {"audit", "audit_nospace"})
    \/ handleShutdown
    \/ Watch_Start(TRUE)
    \/ \E p \in Paths : Tailer(p)
    \/ AuditLogger_Log(TRUE)

SpecLabel == InitLabel /\ [][NextLabel]_vars

\* The text of a message after the prefix the classifier looks for, a space
\* after it left out.
AfterAuditPrefix(m) ==
    IF HasPrefix(m, auditPrefix) THEN TrimPrefix(m, auditPrefix) ELSE TrimPrefix(m, <<"AUDIT:">>)

\* C31: every record the audit sink submits whose message has a non-empty
\* first comma-separated field after the audit prefix carries the label
\* auditType with that field.
C31_RoutedAuditGetsType ==
    \A i \in 1..Len(gcp) :
        LET first == Split(AfterAuditPrefix(gcp[i].payload.message))[1]
        IN  first # <<>> =>
                /\ "auditType" \in DOMAIN gcp[i].labels
                /\ gcp[i].labels["auditType"] = first

\* ---------------------------------------------------------------------
\* A tracked file that vanishes and comes back under its path, with the
\* watcher in either mode and the path's tailer.

NextRecreate ==
    \/ FileSystem({"p1"})
    \/ Env_CreateReused("p1")
    \/ Writer({"p1"}, {"log"})
    \/ Watch_Start(TRUE)
    \/ \E watcherOk, addOk \in BOOLEAN : Watch_NewWatcher(watcherOk, addOk)
    \/ Watch_Event(TRUE)
    \/ Watch_Tick(TRUE)
    \/ \E p \in Paths : Tailer(p)

SpecRecreate == Init /\ [][NextRecreate]_vars

\* The tailer of p has lost its handle while a file exists under p.
Stranded(p) == HasOpened(p) /\ logFile[p].closed /\ dir[p] # 0

\* C32: no step takes a path out of the map of Watch; no step starts a
\* tailer for a path that is in the map, whatever was created under it; and a
\* tailer that has lost its handle on the vanished file gets one on the file
\* created under its path at its next rotation check.
C32_OriginalTailerResumes ==
    /\ [][tailers \subseteq tailers']_vars
    /\ [][\A p \in tailers : spawns'[p] = spawns[p]]_vars
    /\ [](\A p \in Paths :
              (Running /\ ~cancelled /\ Stranded(p)) => checkLogRotation(p, lastFileInfo[p]))

\* ---------------------------------------------------------------------
\* Two tailers with lines of every kind in both files, the first file being
\* truncated and reopened; nothing takes the records out of the channels.

NextClassify ==
    \/ Writer(Paths, LineKinds)
    \/ Env_Truncate("p1")
    \/ Watch_Start(TRUE)
    \/ \E p \in Paths : Tailer(p)

SpecClassify == InitPipe /\ [][NextClassify]_vars

\* The content of an entry, whatever line it came from.
ContentOf(e) == [e EXCEPT !.id = 0]

\* C33: no record in the audit channel has the content of a line in the
\* passthrough channel: equal contents go to the same channel, whatever file
\* they were read from, whatever was read before them and whether the handle
\* is the first one or a reopened one.
C33_SameContentSameChannel ==
    \A i \in 1..Len(logEntries) : \A j \in 1..Len(logLines) :
        ContentOf(logEntries[i]) # ContentOf(JsonUnmarshal(logLines[j]).entry)

\* C33 witness: two records of equal content are in the same channel, one read
\* from the second file and one from the first file through a reopened handle,
\* after another line that was in the first file when its tailer opened it.
C33_Witness ==
    \E i, j \in 1..Len(logEntries) :
        /\ lineFile[logEntries[i].id] = "p1"
        /\ lineFile[logEntries[j].id] = "p2"
        /\ ContentOf(logEntries[i]) = ContentOf(logEntries[j])
        /\ ~logFile["p1"].first
        /\ old # {}

\* ---------------------------------------------------------------------
\* A file created after the first lookForFiles of Watch has returned and
\* before watcher.Add: no create event is reported for it.

Env_CreateInWindow(p) ==
    /\ wpc = "newwatcher"
    /\ Env_Create(p)

NextWindow ==
    \/ Env_CreateInWindow("p2")
    \/ Writer(Paths, {"log"})
    \/ Watch_Start(TRUE)
    \/ Watch_NewWatcher(TRUE, TRUE)
    \/ \E p \in Paths : Tailer(p)

SpecWindow == Init /\ [][NextWindow]_vars

\* C34: once the directory watch is active and no create event waits, the
\* file created between the first glob resolution and watcher.Add has its
\* tailer.
C34_WindowFileDiscovered ==
    (Running /\ wpc = "events" /\ watching /\ events = 0 /\ dir["p2"] # 0) => "p2" \in tailers

\* ---------------------------------------------------------------------
\* The channels and their sinks under fair scheduling: each sink goroutine,
\* and main on its way to starting the audit sink, takes its step when it
\* stays able to.

NextConsume ==
    \/ Writer({"p1"}, LineKinds)
    \/ handleShutdown
    \/ Watch_Start(TRUE)
    \/ \E p \in Paths : Tailer(p)
    \/ FileLogger_Log
    \/ \E marshalOk \in BOOLEAN : AuditLogger_Log(marshalOk)
    \/ \E ok \in BOOLEAN : main_NewClient(ok)
    \/ main_Select

SinksScheduled ==
    /\ WF_vars(FileLogger_Log)
    /\ WF_vars(\E marshalOk \in BOOLEAN : AuditLogger_Log(marshalOk))
    /\ WF_vars(\E ok \in BOOLEAN : main_NewClient(ok))

SpecConsume == InitAudit /\ [][NextConsume]_vars /\ SinksScheduled

\* How many records of a line the audit sink has submitted, and how often the
\* passthrough sink has printed it.
Submitted(id) == Cardinality({k \in 1..Len(gcp) : gcp[k].id = id})
PrintedLines(id) == Cardinality({k \in 1..Len(stdout) : stdout[k] = LineOf(id)})

\* A record leaves a channel only at its head and only in a step of that
\* channel's sink, and no sink has put out more of a line than was enqueued on
\* its channel and taken from it.
ConsumedAtMostOnceByOwnSink ==
    /\ [][logEntries' # logEntries =>
              \/ Len(logEntries) > 0 /\ logEntries' = Tail(logEntries) /\ \E marshalOk \in BOOLEAN : AuditLogger_Log(marshalOk)
              \/ Len(logEntries') = Len(logEntries) + 1 /\ \E p \in Paths : Tail_Send(p)]_vars
    /\ [][logLines' # logLines =>
              \/ Len(logLines) > 0 /\ logLines' = Tail(logLines) /\ FileLogger_Log
              \/ Len(logLines') = Len(logLines) + 1 /\ \E p \in Paths : Tail_Send(p)]_vars
    /\ [](\A id \in 1..(nextId - 1) :
              /\ Submitted(id) <= DequeuedEntries(id)
              /\ PrintedLines(id) <= DequeuedLines(id))

\* The process has ended.
Exited == exitCode # -1

\* C35 as stated: a record is consumed at most once and by its channel's
\* sink, and a record waiting in a channel is eventually consumed unless the
\* context is cancelled.
C35_ConsumedUnlessCancelled ==
    /\ ConsumedAtMostOnceByOwnSink
    /\ \A id \in LineIds :
          /\ (WaitingEntries(id) > 0) ~> (WaitingEntries(id) = 0 \/ cancelled)
          /\ (WaitingLines(id) > 0) ~> (WaitingLines(id) = 0 \/ cancelled)

\* C35 amended: as stated, except that a record also stays unconsumed when
\* the process ends.
C35_ConsumedUnlessCancelledOrExited ==
    /\ ConsumedAtMostOnceByOwnSink
    /\ \A id \in LineIds :
          /\ (WaitingEntries(id) > 0) ~> (WaitingEntries(id) = 0 \/ cancelled \/ Exited)
          /\ (WaitingLines(id) > 0) ~> (WaitingLines(id) = 0 \/ cancelled \/ Exited)

\* C35 witness: the audit sink has submitted a record and has returned on
\* cancellation while another record waits in its channel.
C35_Witness ==
    /\ cancelled
    /\ apc = "done"
    /\ Len(gcp) > 0
    /\ Len(logEntries) > 0

\* ---------------------------------------------------------------------
\* Watch in its event loop with events of every operation, a file that was
\* created before the watch was active, and the tailers.

NextEvents ==
    \/ Env_Create("p2")
    \/ \E op \in OtherOps : Env_Notify(op)
    \/ Writer({"p1"}, {"log"})
    \/ Watch_Start(TRUE)
    \/ Watch_NewWatcher(TRUE, TRUE)
    \/ Watch_Event(TRUE)
    \/ Watch_OtherEvent
    \/ \E p \in Paths : Tailer(p)

SpecEvents == Init /\ [][NextEvents]_vars

\* C36: in its event loop Watch changes its map and starts a tailer only on
\* receiving a create event; receiving an event of another operation leaves
\* the map, the tailers started and every tailer's state as they were.
C36_OnlyCreateResolves ==
    /\ [][(wpc = "events" /\ (tailers' # tailers \/ spawns' # spawns)) =>
              (events' = events - 1 /\ otherEvents' = otherEvents)]_vars
    /\ [][(otherEvents # <<>> /\ otherEvents' = Tail(otherEvents)) =>
              UNCHANGED <<tailers, spawns, tailVars, wpc, events>>]_vars

\* C36 witness: Watch is about to receive an event that is not a create
\* event while a matching file without a tailer exists and no create event
\* waits.
C36_Witness ==
    /\ wpc = "events"
    /\ events = 0
    /\ dir["p2"] # 0 /\ "p2" \notin tailers
    /\ ENABLED <<Watch_OtherEvent>>_vars

\* ---------------------------------------------------------------------
\* A tailer whose Stat at the first open may fail, with its file written,
\* truncated, deleted and created again.

NextStat ==
    \/ Writer({"p1"}, {"log"})
    \/ Rotator({"p1"})
    \/ Watch_Start(TRUE)
    \/ \E p \in Paths : Tail_Open_StatFails(p)
    \/ \E p \in Paths : Tailer(p)

SpecStat == Init /\ [][NextStat]_vars

\* C37: every tailer that has opened its file holds an observation of it.
C37_TailingHasObservation ==
    \A p \in Paths : HasOpened(p) => lastFileInfo[p] # NoInfo

=============================================================================
